---- MODULE Spec2Model ----
(***************************************************************************)
(* Model of the chatbot-support backend: the generation router            *)
(* (LLMManager), the RAG orchestrator (RAGEngine, ConversationManager),   *)
(* the chat service and its two transports, and the conversation-context  *)
(* helpers.                                                               *)
(***************************************************************************)
EXTENDS Integers, Sequences, FiniteSets, TLC

(***************************************************************************)
(* Bounds                                                                  *)
(***************************************************************************)
MaxFallback == 3
\* chat messages handled in one behaviour
MaxRequests == 1
\* longest stored conversation given to the history window
MaxHistory == 12
\* turns of a stored conversation that are neither user nor assistant turns
MaxStray == 2
\* longest history a caller starts update_conversation_history from
MaxStored == 22
\* calls of update_conversation_history in one behaviour
MaxCalls == 3
\* results the vector index returns for one query
MaxHits == 3
\* units of work that use the GigaChat adapter at the same time
MaxCallers == 3
\* candidates in the pool given to hybrid_search
MaxDocs == 3
\* router calls whose attempt order is compared, and the fallback lists
\* they run under
MaxOrderCalls == 2
MaxOrderFallback == 2

(***************************************************************************)
(* Values                                                                  *)
(***************************************************************************)
\* Python's None
None == "None"

\* the three provider classes LLMManager can register
BackendNames == {"gigachat", "deepseek", "openai"}

\* what a provider's generate_response can do, seen from LLMManager:
\* return success=True, return success=False, or raise
ProviderOutcomes == {"success", "failure", "exception"}

\* dict.get(key, default)
Get(d, key, default) == IF key \in DOMAIN d THEN d[key] ELSE default

\* Python truthiness of an optional string
Truthy(v) == v # None /\ v # ""

\* all sequences over S of length 0..n
SeqUpTo(S, n) == UNION {[1..k -> S] : k \in 0..n}

RECURSIVE SeqToSet(_)
SeqToSet(s) == IF s = <<>> THEN {} ELSE {Head(s)} \cup SeqToSet(Tail(s))

Last(s) == s[Len(s)]

\* the members of order that have a provider, in order
EffectiveOrder(order, provs) ==
    LET Configured(m) == m \in provs IN SelectSeq(order, Configured)

IsPrefix(p, s) == Len(p) <= Len(s) /\ SubSeq(s, 1, Len(p)) = p

VARIABLES
    \* ---- settings and LLMManager ----
    providers,        \* LLMManager.providers (its keys)
    default_model,    \* settings.default_model
    fallback_models,  \* settings.fallback_models
    llm_pc,           \* position of LLMManager.generate_response
    preferred_model,  \* argument of the running call
    model_order,      \* local model_order
    order_idx,        \* position of the for loop in model_order
    invoked,          \* providers whose generate_response was awaited, in order
    outcomes,         \* what each of them did
    llm_result        \* the dict generate_response returned

VARIABLES
    \* ---- one unit of work: a chat message on its way through the layers ----
    pc,                    \* where the unit of work is
    entry,                 \* "http", "ws" or "direct" (a caller of the pipeline)
    handled,               \* messages handled so far
    user_message,          \* message / query
    req_session_id,        \* session_id of the request (NoSession for None)
    req_preferred,         \* preferred_model of the request
    session,               \* the ChatSession process_message works on
    conversation_history,  \* what _get_conversation_history returned
    session_context,       \* what _prepare_session_context returned
    context_results,       \* what _retrieve_context returned
    retrieval_fault,       \* the vector store call raised
    messages,              \* what _build_messages returned
    rag_result,            \* outcome of RAGEngine.process_query
    conv_result,           \* outcome of ConversationManager.process_conversation
    service_result,        \* outcome of ChatService.process_message
    replies,               \* what the transport sent to the client
    \* ---- persistence ----
    db_sessions,           \* rows of chat_sessions
    db_messages            \* rows of chat_messages, in created_at order

llmVars == <<providers, default_model, fallback_models, llm_pc, preferred_model,
             model_order, order_idx, invoked, outcomes, llm_result>>

reqVars == <<pc, entry, handled, user_message, req_session_id, req_preferred,
             session, conversation_history, session_context, context_results,
             retrieval_fault, messages, rag_result, conv_result, service_result,
             replies>>

VARIABLES
    \* ---- a caller of ConversationManager.update_conversation_history ----
    mem_history,           \* the history the caller holds
    mem_prev,              \* the history it passed to the last call
    mem_args,              \* user_message and assistant_response of the last call
    mem_calls,             \* calls made
    clock                  \* time.time()

VARIABLES
    \* ---- settings and results of the vector store ----
    similarity_threshold,  \* settings.similarity_threshold, in hundredths
    index_answer,          \* what collection.query returned for the query
    search_results,        \* what search_similar returned
    \* ---- the GigaChat adapter shared by concurrent units of work ----
    access_token,          \* GigaChatProvider.access_token
    caller_pc,             \* where each caller of its generate_response is
    \* ---- HybridSearch.hybrid_search ----
    documents,             \* the candidate pool passed in
    query_words,           \* set(query.lower().split())
    vector_weight,         \* its vector_weight argument, in hundredths
    top_k,                 \* its top_k argument
    vector_results,        \* what find_most_similar returned
    keyword_results,       \* what keyword_search returned
    final_results,         \* what hybrid_search returned
    \* ---- observation of the router ----
    order_log              \* preferred_model and model_order of the calls made, in order

retVars == <<similarity_threshold, index_answer, search_results>>

tokVars == <<access_token, caller_pc>>

hybVars == <<documents, query_words, vector_weight, top_k, vector_results,
             keyword_results, final_results>>

extVars == <<retVars, tokVars, hybVars, order_log>>

VARIABLES
    \* ---- EmbeddingModel.calculate_similarity ----
    vec1,                  \* np.array(embedding1)
    vec2,                  \* np.array(embedding2)
    sim_result,            \* what it returned, in hundredths
    \* ---- HybridSearch.keyword_search ----
    search_query,          \* its query argument, as the words between whitespace
    texts,                 \* the "text" of each document passed in, likewise
    \* ---- ConnectionManager and the websockets of the endpoint ----
    active_connections,    \* ConnectionManager.active_connections
    user_sessions,         \* ConnectionManager.user_sessions
    ws_state,              \* each websocket: not connected, open or closed
    ws_user,               \* the user_id in the path of each websocket
    accept_log,            \* websockets in the order they were accepted
    \* ---- DocumentChunker.chunk_text ----
    text,                  \* its text argument
    chunk_size,            \* DocumentChunker.chunk_size
    chunk_overlap,         \* DocumentChunker.chunk_overlap
    start,                 \* the local start
    chunks,                \* the local chunks
    chunk_pc               \* where the call is

simVars == <<vec1, vec2, sim_result>>

kwVars == <<search_query, texts>>

connVars == <<active_connections, user_sessions, ws_state, ws_user, accept_log>>

chunkVars == <<text, chunk_size, chunk_overlap, start, chunks, chunk_pc>>

libVars == <<simVars, kwVars, connVars, chunkVars>>

dbVars == <<db_sessions, db_messages>>

memVars == <<mem_history, mem_prev, mem_args, mem_calls, clock>>

vars == <<llmVars, reqVars, dbVars, memVars, extVars, libVars>>

(***************************************************************************)
(* LLMManager                                                              *)
(***************************************************************************)
\* the keys set by _initialize_providers from the three api-key settings
InitializeProviders(gigachat_key, deepseek_key, openai_key) ==
    (IF gigachat_key THEN {"gigachat"} ELSE {})
    \cup (IF deepseek_key THEN {"deepseek"} ELSE {})
    \cup (IF openai_key THEN {"openai"} ELSE {})

\* the list model_order built at the top of generate_response
ModelOrder(provs, dflt, fallback, preferred) ==
    IF Truthy(preferred) /\ preferred \in provs
    THEN LET Keep(m) == m \in provs /\ m # preferred
         IN <<preferred>> \o SelectSeq(fallback, Keep)
    ELSE LET Keep(m) == m \in provs /\ m # dflt
         IN <<dflt>> \o SelectSeq(fallback, Keep)

\* the dict a provider returns (the three adapters build the same shapes)
ProviderResult(name, outcome) ==
    IF outcome = "success"
    THEN [content |-> "answer", model |-> name, tokens_used |-> 1,
          success |-> TRUE]
    ELSE [content |-> None, model |-> name, error |-> "api_error",
          success |-> FALSE]

\* the dict returned when the loop ends without a success
SentinelResult ==
    [content |-> "service_unavailable_apology", model |-> "fallback",
     error |-> "all_models_unavailable", success |-> FALSE]

\* the value of a result variable before its function has returned
NoResult == [pending |-> TRUE]

\* the loop without its guard
SkipsModel_Never(model_name, provs) == FALSE

\* the loop's guard "if model_name not in self.providers: continue"
SkipsModel(model_name, provs) == model_name \notin provs

\* generate_response trying the backend that answered last time first
GenerateStart_PromotesLastWinner(preferred) ==
    /\ llm_pc = "idle"
    /\ preferred_model' = preferred
    /\ model_order' =
         (IF Get(llm_result, "success", FALSE) THEN <<llm_result.model>> ELSE <<>>)
         \o ModelOrder(providers, default_model, fallback_models, preferred)
    /\ order_idx' = 1
    /\ invoked' = <<>>
    /\ outcomes' = <<>>
    /\ llm_result' = NoResult
    /\ llm_pc' = "loop"
    /\ UNCHANGED <<providers, default_model, fallback_models>>

\* entry of generate_response: compute model_order, enter the loop
GenerateStart(preferred) ==
    /\ llm_pc = "idle"
    /\ preferred_model' = preferred
    /\ model_order' = ModelOrder(providers, default_model, fallback_models, preferred)
    /\ order_idx' = 1
    /\ invoked' = <<>>
    /\ outcomes' = <<>>
    /\ llm_result' = NoResult
    /\ llm_pc' = "loop"
    /\ UNCHANGED <<providers, default_model, fallback_models>>

\* a loop iteration that skips a name with no provider
LoopSkip ==
    /\ llm_pc = "loop"
    /\ order_idx <= Len(model_order)
    /\ SkipsModel(model_order[order_idx], providers)
    /\ order_idx' = order_idx + 1
    /\ UNCHANGED <<providers, default_model, fallback_models, llm_pc,
                   preferred_model, model_order, invoked, outcomes, llm_result>>
    /\ UNCHANGED <<reqVars, dbVars, memVars, extVars, libVars>>

\* LoopAttempt without the "return result" of the success branch
LoopAttempt_NoReturn ==
    /\ llm_pc = "loop"
    /\ order_idx <= Len(model_order)
    /\ model_order[order_idx] \in providers
    /\ \E outcome \in ProviderOutcomes :
         /\ invoked' = Append(invoked, model_order[order_idx])
         /\ outcomes' = Append(outcomes, outcome)
         /\ llm_result' = IF outcome = "success"
                          THEN ProviderResult(model_order[order_idx], outcome)
                          ELSE llm_result
    /\ order_idx' = order_idx + 1
    /\ UNCHANGED <<providers, default_model, fallback_models, preferred_model,
                   model_order, llm_pc>>
    /\ UNCHANGED <<reqVars, dbVars, memVars, extVars, libVars>>

\* LoopAttempt returning whatever dict the provider returned
LoopAttempt_ReturnsFailure ==
    /\ llm_pc = "loop"
    /\ order_idx <= Len(model_order)
    /\ model_order[order_idx] \in providers
    /\ \E outcome \in ProviderOutcomes :
         /\ invoked' = Append(invoked, model_order[order_idx])
         /\ outcomes' = Append(outcomes, outcome)
         /\ IF outcome = "exception"
            THEN /\ order_idx' = order_idx + 1
                 /\ UNCHANGED <<llm_result, llm_pc>>
            ELSE /\ llm_result' = ProviderResult(model_order[order_idx], outcome)
                 /\ llm_pc' = "done"
                 /\ UNCHANGED order_idx
    /\ UNCHANGED <<providers, default_model, fallback_models, preferred_model,
                   model_order>>
    /\ UNCHANGED <<reqVars, dbVars, memVars, extVars, libVars>>

\* a loop iteration that awaits one provider
LoopAttempt ==
    /\ llm_pc = "loop"
    /\ order_idx <= Len(model_order)
    /\ ~SkipsModel(model_order[order_idx], providers)
    /\ \E outcome \in ProviderOutcomes :
         LET model_name == model_order[order_idx] IN
         /\ invoked' = Append(invoked, model_name)
         /\ outcomes' = Append(outcomes, outcome)
         /\ IF outcome = "success"
            THEN /\ llm_result' = ProviderResult(model_name, outcome)
                 /\ llm_pc' = "done"
                 /\ UNCHANGED order_idx
            ELSE /\ order_idx' = order_idx + 1
                 /\ UNCHANGED <<llm_result, llm_pc>>
    /\ UNCHANGED <<providers, default_model, fallback_models, preferred_model,
                   model_order>>
    /\ UNCHANGED <<reqVars, dbVars, memVars, extVars, libVars>>

\* the loop is exhausted: return the sentinel
LoopExhausted ==
    /\ llm_pc = "loop"
    /\ order_idx > Len(model_order)
    /\ llm_result' = SentinelResult
    /\ llm_pc' = "done"
    /\ UNCHANGED <<providers, default_model, fallback_models, preferred_model,
                   model_order, order_idx, invoked, outcomes>>
    /\ UNCHANGED <<reqVars, dbVars, memVars, extVars, libVars>>

\* the caller takes the result; the manager is ready for the next call
GenerateReturn ==
    /\ llm_pc = "done"
    /\ llm_pc' = "idle"
    /\ UNCHANGED <<providers, default_model, fallback_models, preferred_model,
                   model_order, order_idx, invoked, outcomes, llm_result>>
    /\ UNCHANGED <<reqVars, dbVars, memVars, extVars, libVars>>

InitSettings ==
    /\ \E g \in BOOLEAN, d \in BOOLEAN, o \in BOOLEAN :
         providers = InitializeProviders(g, d, o)
    /\ default_model \in BackendNames
    /\ fallback_models \in SeqUpTo(BackendNames, MaxFallback)

InitLLM ==
    /\ InitSettings
    /\ llm_pc = "idle"
    /\ preferred_model = None
    /\ model_order = <<>>
    /\ order_idx = 1
    /\ invoked = <<>>
    /\ outcomes = <<>>
    /\ llm_result = NoResult

(***************************************************************************)
(* Values of the request path                                              *)
(***************************************************************************)
\* session_id = None in a request
NoSession == 0

\* get_current_user / get_user_from_websocket always return the user with id 1
CurrentUserId == 1

\* RAGEngine.system_prompt
SystemPrompt == "system_prompt"

\* ConversationManager.max_context_length
MaxContextLength == 10

\* default of the limit parameter of ChatService._get_conversation_history
HistoryLimit == 10

\* settings.similarity_threshold, in hundredths
SimilarityThreshold == 70

\* defaults of the vector_weight (in hundredths) and top_k parameters of
\* hybrid_search
DefaultVectorWeight == 70
DefaultTopK == 5

\* message texts a client sends; "" is the empty message
Queries == {"q1"}

\* what the vector index can hold for a query: similarity is 1 - distance in
\* hundredths; metadata is the stored dict (named by its title) or None
Hit(id, similarity, metadata) ==
    [id |-> id, text |-> "chunk", similarity |-> similarity, metadata |-> metadata]

IndexAnswers ==
    { <<>>,
      <<Hit(1, 90, "title_a")>>,
      <<Hit(1, 90, "title_a"), Hit(2, 60, "title_b")>>,
      <<Hit(2, 60, "title_b")>>,
      <<Hit(3, 80, None)>> }

\* histories a direct caller of the pipeline may pass
DirectHistories ==
    { <<>>,
      <<[role |-> "user", content |-> "q0"], [role |-> "assistant", content |-> "a0"]>>,
      <<[role |-> "user"]>> }

\* an exception that left a function
Raised(e) == [raised |-> e]
IsRaised(r) == "raised" \in DOMAIN r

Min(a, b) == IF a < b THEN a ELSE b

Reverse(s) == [i \in 1..Len(s) |-> s[Len(s) + 1 - i]]

\* s[:n]
FirstN(s, n) == SubSeq(s, 1, Min(n, Len(s)))

\* s[-n:] for n > 0
LastN(s, n) == SubSeq(s, IF Len(s) > n THEN Len(s) - n + 1 ELSE 1, Len(s))

(***************************************************************************)
(* ChatService: persistence helpers                                        *)
(***************************************************************************)
\* a lookup that does not test is_active
FindSession_IgnoresActive(rows, user_id, session_id) ==
    LET Match(r) == /\ r.session_id = session_id
                    /\ r.user_id = user_id
    IN SelectSeq(rows, Match)

\* the query of _get_or_create_session
FindSession(rows, user_id, session_id) ==
    LET Match(r) == /\ r.session_id = session_id
                    /\ r.user_id = user_id
                    /\ r.is_active
    IN SelectSeq(rows, Match)

\* the row _get_or_create_session inserts
NewSession(rows, user_id) ==
    [id |-> Len(rows) + 1, session_id |-> Len(rows) + 1, user_id |-> user_id,
     is_active |-> TRUE, model_used |-> "gigachat"]

\* _get_conversation_history: newest limit*2 rows of the session, oldest first
GetConversationHistory(rows, session_pk, limit) ==
    LET Mine(r) == r.session_id = session_pk
        newest == FirstN(Reverse(SelectSeq(rows, Mine)), limit * 2)
        chron == Reverse(newest)
    IN [i \in 1..Len(chron) |-> [role |-> chron[i].role, content |-> chron[i].content]]

\* the two rows _save_messages commits
SavedRows(session_pk, user_msg, response) ==
    << [session_id |-> session_pk, role |-> "user", content |-> user_msg],
       [session_id |-> session_pk, role |-> "assistant",
        content |-> Get(response, "content", "")] >>

(***************************************************************************)
(* ConversationManager and RAGEngine: pure parts                           *)
(***************************************************************************)
\* msg["content"] raises KeyError for a kept turn without content
PrepareRaises(history) ==
    \E i \in 1..Len(LastN(history, MaxContextLength)) :
        LET msg == LastN(history, MaxContextLength)[i] IN
        /\ Get(msg, "role", None) \in {"user", "assistant"}
        /\ "content" \notin DOMAIN msg

\* _prepare_session_context cutting the window from the head of the history
PrepareSessionContext_FromHead(history) ==
    IF history = <<>> THEN <<>>
    ELSE LET recent == FirstN(history, MaxContextLength)
             Keep(msg) == Get(msg, "role", None) \in {"user", "assistant"}
             kept == SelectSeq(recent, Keep)
         IN [i \in 1..Len(kept) |-> [role |-> kept[i].role, content |-> kept[i].content]]

\* update_conversation_history truncating from the head
UpdateConversationHistory_KeepsHead(history, user_msg, assistant_response, now) ==
    LET updated == history
                   \o << [role |-> "user", content |-> user_msg, timestamp |-> now],
                         [role |-> "assistant", content |-> assistant_response,
                          timestamp |-> now + 1] >>
    IN IF Len(updated) > MaxContextLength * 2
       THEN FirstN(updated, MaxContextLength * 2)
       ELSE updated

\* update_conversation_history
UpdateConversationHistory(history, user_msg, assistant_response, now) ==
    LET updated == history
                   \o << [role |-> "user", content |-> user_msg, timestamp |-> now],
                         [role |-> "assistant", content |-> assistant_response,
                          timestamp |-> now + 1] >>
    IN IF Len(updated) > MaxContextLength * 2
       THEN LastN(updated, MaxContextLength * 2)
       ELSE updated

\* _prepare_session_context
PrepareSessionContext(history) ==
    IF history = <<>> THEN <<>>
    ELSE LET recent == LastN(history, MaxContextLength)
             Keep(msg) == Get(msg, "role", None) \in {"user", "assistant"}
             kept == SelectSeq(recent, Keep)
         IN [i \in 1..Len(kept) |-> [role |-> kept[i].role, content |-> kept[i].content]]

\* the threshold filter with a strict comparison
SearchRelevantContext_Strict(results) ==
    LET Relevant(r) == r.similarity > similarity_threshold
    IN SelectSeq(results, Relevant)

\* a variant whose loop starts at the second result
SearchRelevantContext_SkipsFirst(results) ==
    LET Relevant(r) == r.similarity >= similarity_threshold
    IN SelectSeq(SubSeq(results, 2, Len(results)), Relevant)

\* the threshold filter of search_relevant_context
SearchRelevantContext(results) ==
    LET Relevant(r) == r.similarity >= similarity_threshold
    IN SelectSeq(results, Relevant)

\* metadata.get(...) raises AttributeError when the stored metadata is None
ContextRaises(ctx) == \E i \in 1..Len(ctx) : ctx[i].metadata = None

\* _format_context_for_prompt: one block per result, numbered from 1
FormatContextForPrompt(ctx) ==
    IF ctx = <<>> THEN ""
    ELSE ToString([i \in 1..Len(ctx) |->
                <<i, ctx[i].similarity, ctx[i].metadata, ctx[i].text>>])

\* _build_messages without the "if context_results" guard
BuildMessages_AlwaysContext(query, ctx, history) ==
    LET m1 == <<[role |-> "system", content |-> SystemPrompt]>>
        m2 == Append(m1, [role |-> "system",
                          content |-> "context:" \o FormatContextForPrompt(ctx)])
        m3 == IF history # <<>> THEN m2 \o history ELSE m2
    IN Append(m3, [role |-> "user", content |-> query])

\* _build_messages putting the history before the context
BuildMessages_HistoryFirst(query, ctx, history) ==
    LET m1 == <<[role |-> "system", content |-> SystemPrompt]>>
        m2 == IF history # <<>> THEN m1 \o history ELSE m1
        m3 == IF ctx # <<>>
              THEN Append(m2, [role |-> "system",
                               content |-> "context:" \o FormatContextForPrompt(ctx)])
              ELSE m2
    IN Append(m3, [role |-> "user", content |-> query])

\* _build_messages
BuildMessages(query, ctx, history) ==
    LET m1 == <<[role |-> "system", content |-> SystemPrompt]>>
        m2 == IF ctx # <<>>
              THEN Append(m1, [role |-> "system",
                               content |-> "context:" \o FormatContextForPrompt(ctx)])
              ELSE m1
        m3 == IF history # <<>> THEN m2 \o history ELSE m2
    IN Append(m3, [role |-> "user", content |-> query])

\* _format_context_sources
FormatContextSources(ctx) ==
    [i \in 1..Len(ctx) |-> [id |-> ctx[i].id, title |-> ctx[i].metadata,
                            similarity |-> ctx[i].similarity]]

\* _format_similarity_scores
FormatSimilarityScores(ctx) == [i \in 1..Len(ctx) |-> ctx[i].similarity]

\* the result dict with the model read from the wrong key
NormalizeResult_WrongKey(llm_response, ctx) ==
    [content |-> Get(llm_response, "content", None),
     model_used |-> Get(llm_response, "model_used", None),
     tokens_used |-> Get(llm_response, "tokens_used", 0),
     context_sources |-> FormatContextSources(ctx),
     similarity_scores |-> FormatSimilarityScores(ctx),
     success |-> Get(llm_response, "success", FALSE),
     error |-> Get(llm_response, "error", "unknown_error")]

\* the result dict process_query builds from the router's answer
NormalizeResult(llm_response, ctx) ==
    LET result == [content |-> Get(llm_response, "content", None),
                   model_used |-> Get(llm_response, "model", None),
                   tokens_used |-> Get(llm_response, "tokens_used", 0),
                   context_sources |-> FormatContextSources(ctx),
                   similarity_scores |-> FormatSimilarityScores(ctx),
                   success |-> Get(llm_response, "success", FALSE)]
    IN IF ~Get(llm_response, "success", FALSE)
       THEN result @@ [error |-> Get(llm_response, "error", "unknown_error")]
       ELSE result

\* process_query's handler that lets the exception through
ProcessQueryExcept_Reraise(e) == Raised(e)

\* the except branch of process_query
ProcessQueryExcept(e) ==
    [content |-> "query_error_apology", model_used |-> "error",
     success |-> FALSE, error |-> e]

\* process_conversation's handler that lets the exception through
ProcessConversationExcept_Reraise(session_id, e) == Raised(e)

\* the except branch of process_conversation
ProcessConversationExcept(session_id, e) ==
    [content |-> "conversation_error_apology", session_id |-> session_id,
     success |-> FALSE, error |-> e]

\* process_conversation's normal return: the response with the session id
ConversationResponse(response, session_id) ==
    [session_id |-> session_id] @@ response

\* process_message's normal return
ServiceResponse(sess, response) ==
    [session_id |-> sess.session_id,
     response |-> Get(response, "content", None),
     model_used |-> Get(response, "model_used", None),
     context_sources |-> Get(response, "context_sources", <<>>),
     similarity_scores |-> Get(response, "similarity_scores", <<>>),
     success |-> Get(response, "success", FALSE)]

\* the except branch of process_message
ProcessMessageExcept ==
    [error |-> "message_processing_error", success |-> FALSE]

\* send_message after process_message returned: an unsuccessful response
\* raises HTTPException inside the try, which the handler's own except
\* turns into the 500 "internal server error"
SendMessageReply(response) ==
    IF ~Get(response, "success", FALSE)
    THEN [status |-> 500, detail |-> "internal_server_error"]
    ELSE [status |-> 200,
          session_id |-> response.session_id,
          response |-> response.response,
          model_used |-> response.model_used,
          context_sources |-> response.context_sources,
          similarity_scores |-> response.similarity_scores,
          success |-> response.success]

\* the chat_response frame handle_chat_message sends
ChatResponseFrame(response) ==
    [type |-> "chat_response",
     session_id |-> Get(response, "session_id", NoSession),
     response |-> Get(response, "response", None),
     model_used |-> Get(response, "model_used", None),
     context_sources |-> Get(response, "context_sources", <<>>),
     similarity_scores |-> Get(response, "similarity_scores", <<>>),
     success |-> Get(response, "success", FALSE)]

(***************************************************************************)
(* One chat message through transport, ChatService, ConversationManager    *)
(* and RAGEngine                                                           *)
(***************************************************************************)
NoSessionRow ==
    [id |-> 0, session_id |-> NoSession, user_id |-> 0, is_active |-> FALSE,
     model_used |-> None]

InitRequest ==
    /\ pc = "idle"
    /\ entry = "none"
    /\ handled = 0
    /\ user_message = ""
    /\ req_session_id = NoSession
    /\ req_preferred = None
    /\ session = NoSessionRow
    /\ conversation_history = <<>>
    /\ session_context = <<>>
    /\ context_results = <<>>
    /\ retrieval_fault = FALSE
    /\ messages = <<>>
    /\ rag_result = NoResult
    /\ conv_result = NoResult
    /\ service_result = NoResult
    /\ replies = <<>>

InitMem ==
    /\ mem_history = <<>>
    /\ mem_prev = <<>>
    /\ mem_args = <<>>
    /\ mem_calls = 0
    /\ clock = 0

\* the bounds of the library and connection parts
MaxSockets == 3
MaxTextLen == 6

\* no websocket: the value of a user_id that is not a key of
\* active_connections
NoSocket == 0

\* settings.chunk_size and settings.chunk_overlap
DefaultChunkSize == 1000
DefaultChunkOverlap == 200

\* the websockets the server may see, and the user_ids of their paths
Sockets == 1..MaxSockets
WsUserIds == {"alice", "bob"}

\* nothing compared
InitSimIdle ==
    /\ vec1 = <<>>
    /\ vec2 = <<>>
    /\ sim_result = 0

\* no keyword search asked
InitKeywordIdle ==
    /\ search_query = <<>>
    /\ texts = <<>>

\* ConnectionManager.__init__, and no websocket has reached the endpoint
InitConnections ==
    /\ active_connections = [u \in WsUserIds |-> NoSocket]
    /\ user_sessions = [u \in WsUserIds |-> NoSession]
    /\ ws_state = [w \in Sockets |-> "new"]
    /\ ws_user = [w \in Sockets |-> None]
    /\ accept_log = <<>>

\* DocumentChunker() with the settings, chunk_text not called
InitChunkIdle ==
    /\ text = <<>>
    /\ chunk_size = DefaultChunkSize
    /\ chunk_overlap = DefaultChunkOverlap
    /\ start = 0
    /\ chunks = <<>>
    /\ chunk_pc = "idle"

\* nothing compared, searched, connected or chunked
InitLib ==
    /\ InitSimIdle
    /\ InitKeywordIdle
    /\ InitConnections
    /\ InitChunkIdle

\* nothing searched, no token cached, no router call observed
InitExtIdle ==
    /\ similarity_threshold = SimilarityThreshold
    /\ index_answer = <<>>
    /\ search_results = <<>>
    /\ access_token = None
    /\ caller_pc = [c \in 1..MaxCallers |-> "idle"]
    /\ documents = <<>>
    /\ query_words = {}
    /\ vector_weight = DefaultVectorWeight
    /\ top_k = DefaultTopK
    /\ vector_results = <<>>
    /\ keyword_results = <<>>
    /\ final_results = <<>>
    /\ order_log = <<>>

\* the parts a request does not touch, at rest
InitExt ==
    /\ InitExtIdle
    /\ InitLib

\* the database is empty, or holds one session with one earlier exchange
InitDb ==
    \/ /\ db_sessions = <<>>
       /\ db_messages = <<>>
    \/ /\ db_sessions = <<NewSession(<<>>, CurrentUserId)>>
       /\ db_messages = SavedRows(1, "q1", [content |-> "answer"])

\* the session ids a client may send: none, the ids of the stored sessions,
\* and ids no session has
AskedSessionIds ==
    0..(IF Len(db_sessions) > MaxRequests THEN Len(db_sessions) ELSE MaxRequests)

\* the session id process_conversation is given
ConvSessionId == IF entry = "direct" THEN req_session_id ELSE session.session_id

\* a new unit of work starts with fresh locals
BeginRequest(e, msg, sid, preferred) ==
    /\ pc = "idle"
    /\ handled < MaxRequests
    /\ entry' = e
    /\ user_message' = msg
    /\ req_session_id' = sid
    /\ req_preferred' = preferred
    /\ session' = NoSessionRow
    /\ session_context' = <<>>
    /\ context_results' = <<>>
    /\ retrieval_fault' = FALSE
    /\ messages' = <<>>
    /\ rag_result' = NoResult
    /\ conv_result' = NoResult
    /\ service_result' = NoResult
    /\ preferred_model' = None
    /\ model_order' = <<>>
    /\ order_idx' = 1
    /\ invoked' = <<>>
    /\ outcomes' = <<>>
    /\ llm_result' = NoResult
    /\ UNCHANGED <<providers, default_model, fallback_models, llm_pc>>

\* POST /api/chat/message up to the call of process_message
HttpSendMessage ==
    /\ \E msg \in Queries, sid \in AskedSessionIds,
          preferred \in BackendNames \cup {None} :
         BeginRequest("http", msg, sid, preferred)
    /\ conversation_history' = <<>>
    /\ replies' = <<>>
    /\ pc' = "get_session"
    /\ UNCHANGED <<handled, dbVars>>
    /\ UNCHANGED <<memVars, extVars, libVars>>

\* handle_chat_message up to the call of process_message
WsHandleChatMessage ==
    /\ \E msg \in Queries \cup {""}, sid \in 0..MaxRequests,
          preferred \in BackendNames \cup {None} :
         /\ BeginRequest("ws", msg, sid, preferred)
         /\ IF msg = ""
            THEN /\ replies' = <<[type |-> "error", message |-> "empty_message"]>>
                 /\ pc' = "idle"
                 /\ handled' = handled + 1
            ELSE /\ replies' = <<[type |-> "typing", status |-> "start"]>>
                 /\ pc' = "get_session"
                 /\ UNCHANGED handled
    /\ conversation_history' = <<>>
    /\ UNCHANGED dbVars
    /\ UNCHANGED <<memVars, extVars, libVars>>

\* a caller of RAGPipeline.process_user_query with a history of its own
DirectProcessUserQuery ==
    /\ \E msg \in Queries, sid \in 0..MaxRequests, preferred \in BackendNames \cup {None} :
         BeginRequest("direct", msg, sid, preferred)
    /\ \E history \in DirectHistories : conversation_history' = history
    /\ replies' = <<>>
    /\ pc' = "prepare"
    /\ UNCHANGED <<handled, dbVars>>
    /\ UNCHANGED <<memVars, extVars, libVars>>

\* process_message: _get_or_create_session (a database fault goes to the
\* except branch of process_message)
GetOrCreateSession ==
    /\ pc = "get_session"
    /\ \E fault \in BOOLEAN :
         IF fault
         THEN /\ service_result' = ProcessMessageExcept
              /\ pc' = "respond"
              /\ UNCHANGED <<session, db_sessions>>
         ELSE /\ LET found == FindSession(db_sessions, CurrentUserId, req_session_id) IN
                 IF req_session_id # NoSession /\ found # <<>>
                 THEN /\ session' = found[1]
                      /\ UNCHANGED db_sessions
                 ELSE /\ session' = NewSession(db_sessions, CurrentUserId)
                      /\ db_sessions' = Append(db_sessions,
                                               NewSession(db_sessions, CurrentUserId))
              /\ pc' = "get_history"
              /\ UNCHANGED service_result
    /\ UNCHANGED <<entry, handled, user_message, req_session_id, req_preferred,
                   conversation_history, session_context, context_results,
                   retrieval_fault, messages, rag_result, conv_result, replies,
                   db_messages, llmVars>>
    /\ UNCHANGED <<memVars, extVars, libVars>>

\* process_message: _get_conversation_history
GetHistory ==
    /\ pc = "get_history"
    /\ \E fault \in BOOLEAN :
         IF fault
         THEN /\ service_result' = ProcessMessageExcept
              /\ pc' = "respond"
              /\ UNCHANGED conversation_history
         ELSE /\ conversation_history' =
                    GetConversationHistory(db_messages, session.id, HistoryLimit)
              /\ pc' = "prepare"
              /\ UNCHANGED service_result
    /\ UNCHANGED <<entry, handled, user_message, req_session_id, req_preferred,
                   session, session_context, context_results, retrieval_fault,
                   messages, rag_result, conv_result, replies, dbVars, llmVars>>
    /\ UNCHANGED <<memVars, extVars, libVars>>

\* process_conversation: _prepare_session_context inside the try
PrepareContext ==
    /\ pc = "prepare"
    /\ IF PrepareRaises(conversation_history)
       THEN /\ conv_result' = ProcessConversationExcept(ConvSessionId, "KeyError")
            /\ pc' = "conv_done"
            /\ UNCHANGED session_context
       ELSE /\ session_context' = PrepareSessionContext(conversation_history)
            /\ pc' = "retrieve"
            /\ UNCHANGED conv_result
    /\ UNCHANGED <<entry, handled, user_message, req_session_id, req_preferred,
                   session, conversation_history, context_results, retrieval_fault,
                   messages, rag_result, service_result, replies, dbVars, llmVars>>
    /\ UNCHANGED <<memVars, extVars, libVars>>

\* _retrieve_context without its try: the fault reaches process_query's handler
RetrieveContext_Aborts ==
    /\ pc = "retrieve"
    /\ \E fault \in BOOLEAN, answer \in IndexAnswers :
         /\ retrieval_fault' = fault
         /\ IF fault
            THEN /\ rag_result' = ProcessQueryExcept("retrieval_error")
                 /\ pc' = "query_done"
                 /\ UNCHANGED context_results
            ELSE /\ context_results' = SearchRelevantContext(answer)
                 /\ pc' = "build"
                 /\ UNCHANGED rag_result
    /\ UNCHANGED <<entry, handled, user_message, req_session_id, req_preferred,
                   session, conversation_history, session_context, messages,
                   conv_result, service_result, replies, dbVars, llmVars>>
    /\ UNCHANGED <<memVars, extVars, libVars>>

\* process_query step 1: _retrieve_context; a fault of the vector store is
\* caught there and gives no context
RetrieveContext ==
    /\ pc = "retrieve"
    /\ \E fault \in BOOLEAN, answer \in IndexAnswers :
         /\ retrieval_fault' = fault
         /\ context_results' = IF fault THEN <<>> ELSE SearchRelevantContext(answer)
    /\ pc' = "build"
    /\ UNCHANGED <<entry, handled, user_message, req_session_id, req_preferred,
                   session, conversation_history, session_context, messages,
                   rag_result, conv_result, service_result, replies, dbVars, llmVars>>
    /\ UNCHANGED <<memVars, extVars, libVars>>

\* process_query step 2: _build_messages inside the try
BuildPrompt ==
    /\ pc = "build"
    /\ IF ContextRaises(context_results)
       THEN /\ rag_result' = ProcessQueryExcept("AttributeError")
            /\ pc' = "query_done"
            /\ UNCHANGED messages
       ELSE /\ messages' = BuildMessages(user_message, context_results, session_context)
            /\ pc' = "generate"
            /\ UNCHANGED rag_result
    /\ UNCHANGED <<entry, handled, user_message, req_session_id, req_preferred,
                   session, conversation_history, session_context, context_results,
                   retrieval_fault, conv_result, service_result, replies, dbVars,
                   llmVars>>
    /\ UNCHANGED <<memVars, extVars, libVars>>

\* process_query step 3: the call of llm_manager.generate_response
CallGenerate ==
    /\ pc = "generate"
    /\ GenerateStart(req_preferred)
    /\ pc' = "await_llm"
    /\ UNCHANGED <<entry, handled, user_message, req_session_id, req_preferred,
                   session, conversation_history, session_context, context_results,
                   retrieval_fault, messages, rag_result, conv_result,
                   service_result, replies, dbVars>>
    /\ UNCHANGED <<memVars, extVars, libVars>>

\* process_query step 4: the result dict
QueryReturn ==
    /\ pc = "await_llm"
    /\ llm_pc = "done"
    /\ rag_result' = NormalizeResult(llm_result, context_results)
    /\ llm_pc' = "idle"
    /\ pc' = "query_done"
    /\ UNCHANGED <<providers, default_model, fallback_models, preferred_model,
                   model_order, order_idx, invoked, outcomes, llm_result>>
    /\ UNCHANGED <<entry, handled, user_message, req_session_id, req_preferred,
                   session, conversation_history, session_context, context_results,
                   retrieval_fault, messages, conv_result, service_result, replies,
                   dbVars>>
    /\ UNCHANGED <<memVars, extVars, libVars>>

\* process_conversation after process_query
ConversationReturn ==
    /\ pc = "query_done"
    /\ conv_result' = IF IsRaised(rag_result)
                      THEN ProcessConversationExcept(ConvSessionId, rag_result.raised)
                      ELSE ConversationResponse(rag_result, ConvSessionId)
    /\ pc' = "conv_done"
    /\ UNCHANGED <<entry, handled, user_message, req_session_id, req_preferred,
                   session, conversation_history, session_context, context_results,
                   retrieval_fault, messages, rag_result, service_result, replies,
                   dbVars, llmVars>>
    /\ UNCHANGED <<memVars, extVars, libVars>>

\* the direct caller has its result
DirectReturn ==
    /\ pc = "conv_done"
    /\ entry = "direct"
    /\ pc' = "idle"
    /\ handled' = handled + 1
    /\ UNCHANGED <<entry, user_message, req_session_id, req_preferred,
                   session, conversation_history, session_context, context_results,
                   retrieval_fault, messages, rag_result, conv_result,
                   service_result, replies, dbVars, llmVars>>
    /\ UNCHANGED <<memVars, extVars, libVars>>

\* _save_messages committing each row on its own: a fault after the first
\* commit leaves the user row
SaveMessages_CommitsEach ==
    /\ pc = "conv_done"
    /\ entry # "direct"
    /\ IF IsRaised(conv_result)
       THEN /\ service_result' = ProcessMessageExcept
            /\ pc' = "respond"
            /\ UNCHANGED db_messages
       ELSE /\ \E committed \in 0..2 :
                 db_messages' = db_messages
                    \o FirstN(SavedRows(session.id, user_message, conv_result),
                              committed)
            /\ pc' = "update_session"
            /\ UNCHANGED service_result
    /\ UNCHANGED <<entry, handled, user_message, req_session_id, req_preferred,
                   session, conversation_history, session_context, context_results,
                   retrieval_fault, messages, rag_result, conv_result, replies,
                   db_sessions, llmVars>>
    /\ UNCHANGED <<memVars, extVars, libVars>>

\* process_message: _save_messages (a database fault is rolled back there)
SaveMessages ==
    /\ pc = "conv_done"
    /\ entry # "direct"
    /\ IF IsRaised(conv_result)
       THEN /\ service_result' = ProcessMessageExcept
            /\ pc' = "respond"
            /\ UNCHANGED db_messages
       ELSE /\ \E fault \in BOOLEAN :
                 db_messages' = IF fault THEN db_messages
                                ELSE db_messages
                                     \o SavedRows(session.id, user_message, conv_result)
            /\ pc' = "update_session"
            /\ UNCHANGED service_result
    /\ UNCHANGED <<entry, handled, user_message, req_session_id, req_preferred,
                   session, conversation_history, session_context, context_results,
                   retrieval_fault, messages, rag_result, conv_result, replies,
                   db_sessions, llmVars>>
    /\ UNCHANGED <<memVars, extVars, libVars>>

\* process_message: _update_session and the return
UpdateSession ==
    /\ pc = "update_session"
    /\ \E fault \in BOOLEAN :
         IF fault
         THEN /\ service_result' = ProcessMessageExcept
              /\ UNCHANGED db_sessions
         ELSE /\ service_result' = ServiceResponse(session, conv_result)
              /\ db_sessions' =
                   [i \in 1..Len(db_sessions) |->
                      IF /\ db_sessions[i].id = session.id
                         /\ Truthy(Get(conv_result, "model_used", None))
                      THEN [db_sessions[i] EXCEPT !.model_used = conv_result.model_used]
                      ELSE db_sessions[i]]
    /\ pc' = "respond"
    /\ UNCHANGED <<entry, handled, user_message, req_session_id, req_preferred,
                   session, conversation_history, session_context, context_results,
                   retrieval_fault, messages, rag_result, conv_result, replies,
                   db_messages, llmVars>>
    /\ UNCHANGED <<memVars, extVars, libVars>>

\* send_message after process_message
HttpRespond ==
    /\ pc = "respond"
    /\ entry = "http"
    /\ replies' = <<SendMessageReply(service_result)>>
    /\ pc' = "idle"
    /\ handled' = handled + 1
    /\ UNCHANGED <<entry, user_message, req_session_id, req_preferred,
                   session, conversation_history, session_context, context_results,
                   retrieval_fault, messages, rag_result, conv_result,
                   service_result, dbVars, llmVars>>
    /\ UNCHANGED <<memVars, extVars, libVars>>

\* handle_chat_message after process_message
WsRespond ==
    /\ pc = "respond"
    /\ entry = "ws"
    /\ replies' = replies \o << [type |-> "typing", status |-> "stop"],
                               ChatResponseFrame(service_result) >>
    /\ pc' = "idle"
    /\ handled' = handled + 1
    /\ UNCHANGED <<entry, user_message, req_session_id, req_preferred,
                   session, conversation_history, session_context, context_results,
                   retrieval_fault, messages, rag_result, conv_result,
                   service_result, dbVars, llmVars>>
    /\ UNCHANGED <<memVars, extVars, libVars>>

\* the shipped configuration: settings.default_model and settings.fallback_models
InitDefaultSettings ==
    /\ \E g \in BOOLEAN, d \in BOOLEAN, o \in BOOLEAN :
         providers = InitializeProviders(g, d, o)
    /\ default_model = "gigachat"
    /\ fallback_models = <<"deepseek", "openai">>

InitChat ==
    /\ InitDefaultSettings
    /\ llm_pc = "idle"
    /\ preferred_model = None
    /\ model_order = <<>>
    /\ order_idx = 1
    /\ invoked = <<>>
    /\ outcomes = <<>>
    /\ llm_result = NoResult
    /\ InitRequest
    /\ InitDb
    /\ InitMem
    /\ InitExt

NextChat ==
    \/ HttpSendMessage
    \/ WsHandleChatMessage
    \/ DirectProcessUserQuery
    \/ GetOrCreateSession
    \/ GetHistory
    \/ PrepareContext
    \/ RetrieveContext
    \/ BuildPrompt
    \/ CallGenerate
    \/ LoopSkip
    \/ LoopAttempt
    \/ LoopExhausted
    \/ QueryReturn
    \/ ConversationReturn
    \/ DirectReturn
    \/ SaveMessages
    \/ UpdateSession
    \/ HttpRespond
    \/ WsRespond

SpecChat == InitChat /\ [][NextChat]_vars

\* process_query has returned in the current unit of work
QueryReturned ==
    /\ pc \in {"query_done", "conv_done", "update_session", "respond", "idle"}
    /\ rag_result # NoResult

\* C3: when every backend of the order fails, or none is configured,
\* generate_response returns the sentinel (apology text, model "fallback",
\* success=false, an error) and process_query returns it as success=false,
\* model_used="fallback", the apology as content and an error field.
C3_ExhaustionGivesSentinel ==
    /\ (llm_pc = "done" /\ \A i \in 1..Len(outcomes) : outcomes[i] # "success") =>
          /\ llm_result.content = "service_unavailable_apology"
          /\ llm_result.model = "fallback"
          /\ llm_result.success = FALSE
          /\ llm_result.error = "all_models_unavailable"
          /\ invoked = EffectiveOrder(model_order, providers)
    /\ (QueryReturned /\ llm_result # NoResult
          /\ \A i \in 1..Len(outcomes) : outcomes[i] # "success") =>
          /\ rag_result.success = FALSE
          /\ rag_result.model_used = "fallback"
          /\ rag_result.content = "service_unavailable_apology"
          /\ "error" \in DOMAIN rag_result
          /\ rag_result.error = "all_models_unavailable"

C3_Witness ==
    /\ pc = "conv_done"
    /\ Len(invoked) = 3
    /\ \A i \in 1..3 : outcomes[i] # "success"
    /\ rag_result.model_used = "fallback"

\* user-facing texts of the failure results
GenericMessages ==
    {"service_unavailable_apology", "query_error_apology", "conversation_error_apology"}

\* C6: no exception leaves process_query or process_conversation: a fault
\* raised inside them ends in a result record with success=false and a
\* generic user-facing message.
C6_NoExceptionEscapes ==
    /\ ~IsRaised(rag_result)
    /\ ~IsRaised(conv_result)
    /\ QueryReturned =>
          /\ {"content", "success"} \subseteq DOMAIN rag_result
          /\ ~rag_result.success => rag_result.content \in GenericMessages
          /\ ContextRaises(context_results) =>
                /\ ~rag_result.success
                /\ rag_result.content = "query_error_apology"
    /\ (pc \in {"conv_done", "update_session", "respond", "idle"}
          /\ conv_result # NoResult) =>
          /\ {"content", "success"} \subseteq DOMAIN conv_result
          /\ ~conv_result.success => conv_result.content \in GenericMessages
          /\ PrepareRaises(conversation_history) =>
                /\ ~conv_result.success
                /\ conv_result.content = "conversation_error_apology"

C6_Witness ==
    /\ pc = "conv_done"
    /\ ContextRaises(context_results)
    /\ rag_result.model_used = "error"
    /\ ~conv_result.success

\* C7: under total backend outage the response the user gets, from
\* process_message and over HTTP and WebSocket, is the apology message with
\* success=false, not an error response.
C7_OutageAnsweredWithApology ==
    ( /\ pc = "idle"
      /\ entry \in {"http", "ws"}
      /\ Get(rag_result, "model_used", None) = "fallback"
      /\ "error" \notin DOMAIN service_result ) =>
        /\ service_result.response = "service_unavailable_apology"
        /\ service_result.success = FALSE
        /\ entry = "http" =>
              /\ Get(replies[1], "status", 0) = 200
              /\ Get(replies[1], "response", None) = "service_unavailable_apology"
        /\ entry = "ws" =>
              /\ Last(replies).type = "chat_response"
              /\ Last(replies).response = "service_unavailable_apology"
              /\ Last(replies).success = FALSE

\* C11: every result process_query returns, on the success path and on
\* every failure path, has context_sources and similarity_scores, both of the
\* same length, the i-th score being the similarity of the i-th source.
C11_SourcesAndScoresAligned ==
    QueryReturned =>
        /\ {"context_sources", "similarity_scores"} \subseteq DOMAIN rag_result
        /\ Len(rag_result.context_sources) = Len(rag_result.similarity_scores)
        /\ \A i \in 1..Len(rag_result.context_sources) :
             rag_result.similarity_scores[i] = rag_result.context_sources[i].similarity

\* C12: a fault of the embedding or index call leaves an empty context, the
\* prompt is still assembled and the router still called, and the result's
\* success is the router's: the fault alone never gives success=false.
C12_RetrievalFaultNotFatal ==
    /\ retrieval_fault => context_results = <<>>
    /\ (retrieval_fault /\ QueryReturned) =>
          /\ messages = BuildMessages(user_message, <<>>, session_context)
          /\ llm_result # NoResult
          /\ rag_result.model_used # "error"
          /\ rag_result.context_sources = <<>>
          /\ rag_result.success = (outcomes # <<>> /\ Last(outcomes) = "success")

C12_Witness ==
    /\ pc = "query_done"
    /\ retrieval_fault
    /\ context_results = <<>>
    /\ Len(messages) >= 2
    /\ rag_result.success

\* C13: when no retrieval result is at or above the threshold the message
\* list has no context system message (its only system message is the
\* instruction), the router is still called and the result is the router's:
\* an empty context is not an error.
C13_EmptyContextStillGenerates ==
    /\ (pc \in {"generate", "await_llm"} /\ context_results = <<>>) =>
          /\ Len(messages) = 1 + Len(session_context) + 1
          /\ \A i \in 1..Len(messages) :
               messages[i].role = "system" =>
                   i = 1 /\ messages[i].content = SystemPrompt
    /\ (QueryReturned /\ context_results = <<>>) =>
          /\ \A i \in 2..Len(messages) : messages[i].role # "system"
          /\ llm_result # NoResult
          /\ rag_result.model_used # "error"
          /\ rag_result.success = (outcomes # <<>> /\ Last(outcomes) = "success")

C13_Witness ==
    /\ pc = "query_done"
    /\ ~retrieval_fault
    /\ context_results = <<>>
    /\ Len(messages) = 1 + Len(session_context) + 1
    /\ messages[2].role # "system"
    /\ rag_result.success

\* the store holds whole exchanges: a user row followed by the assistant row
\* of the same session
PairedStore ==
    /\ Len(db_messages) % 2 = 0
    /\ \A i \in 1..Len(db_messages) :
         IF i % 2 = 1
         THEN /\ db_messages[i].role = "user"
              /\ db_messages[i + 1].session_id = db_messages[i].session_id
         ELSE db_messages[i].role = "assistant"

\* C19: message processing only appends to the conversation store, and
\* appends the user row and the assistant row of an exchange together or not
\* at all: no store state has a user row without its assistant row, and no
\* step changes or removes an existing row.
C19_StoreAppendOnlyAndPaired ==
    /\ []PairedStore
    /\ [][IsPrefix(db_messages, db_messages')]_vars

C19_Witness ==
    /\ pc = "update_session"
    /\ Len(db_messages) = 4
    /\ db_messages[3] = [session_id |-> 1, role |-> "user", content |-> "q1"]
    /\ db_messages[4].role = "assistant"
    /\ db_messages[4].content = "service_unavailable_apology"

(***************************************************************************)
(* The router on its own: any caller, any preferred_model                  *)
(***************************************************************************)
DirectCall ==
    /\ \E preferred \in BackendNames \cup {None} : GenerateStart(preferred)
    /\ UNCHANGED <<reqVars, dbVars, memVars, extVars, libVars>>

InitRouter == InitLLM /\ InitRequest /\ InitDb /\ InitMem /\ InitExt

NextRouter ==
    \/ DirectCall
    \/ LoopSkip
    \/ LoopAttempt
    \/ LoopExhausted
    \/ GenerateReturn

SpecRouter == InitRouter /\ [][NextRouter]_vars

\* C1: backends are attempted one at a time; once one returns success=true
\* its result is what generate_response returns and no backend later in the
\* order is invoked during that call.
C1_StopsAtFirstSuccess ==
    /\ \A i \in 1..Len(outcomes) : outcomes[i] = "success" => i = Len(outcomes)
    /\ (outcomes # <<>> /\ Last(outcomes) = "success") =>
          /\ llm_pc \in {"done", "idle"}
          /\ llm_result.success
          /\ llm_result.model = Last(invoked)
          /\ llm_result.content = "answer"

C1_Witness ==
    /\ llm_pc = "done"
    /\ Len(invoked) = 2
    /\ Last(outcomes) = "success"
    /\ Len(EffectiveOrder(model_order, providers)) = 3

\* the order the specification describes: preferred if provided and
\* configured, then the default if not yet included, then the fallback list
\* in listed order without entries already included or not configured
RECURSIVE AppendNew(_, _, _)
AppendNew(acc, rest, provs) ==
    IF rest = <<>> THEN acc
    ELSE IF Head(rest) \in SeqToSet(acc) \/ Head(rest) \notin provs
         THEN AppendNew(acc, Tail(rest), provs)
         ELSE AppendNew(Append(acc, Head(rest)), Tail(rest), provs)

ClaimedOrder(provs, dflt, fallback, preferred) ==
    AppendNew(<<>>, (IF Truthy(preferred) THEN <<preferred>> ELSE <<>>)
                     \o <<dflt>> \o fallback, provs)

\* C2: for every configuration and preferred_backend the attempt order is
\* preferred (if provided and configured), then the default backend if not
\* already included, then the fallback list in listed order without entries
\* already included or not configured.
C2_OrderAsSpecified ==
    llm_pc = "loop" =>
        EffectiveOrder(model_order, providers)
          = ClaimedOrder(providers, default_model, fallback_models, preferred_model)

\* C26: within one generate_response call no backend is invoked more than
\* once, whatever the default backend, the fallback list (also one that
\* repeats a name or holds the default or preferred backend) and
\* preferred_backend are.
C26_NoBackendInvokedTwice ==
    \A i \in 1..Len(invoked) : \A j \in 1..Len(invoked) :
        invoked[i] = invoked[j] => i = j

\* C4: a backend that returns success=false or raises is passed over and the
\* next one in the order is tried: the backends invoked are a prefix of the
\* order, all but a final successful one failed, and the caller gets either
\* the successful backend's result or, when all were tried, the sentinel;
\* never one backend's failure dict.
C4_FailuresAreSkipped ==
    /\ IsPrefix(invoked, EffectiveOrder(model_order, providers))
    /\ llm_pc = "loop" =>
          /\ \A i \in 1..Len(outcomes) : outcomes[i] \in {"failure", "exception"}
          /\ invoked = EffectiveOrder(SubSeq(model_order, 1, order_idx - 1), providers)
    /\ llm_pc = "done" =>
          \/ /\ llm_result.success
             /\ Last(outcomes) = "success"
             /\ llm_result.model = Last(invoked)
          \/ /\ llm_result = SentinelResult
             /\ invoked = EffectiveOrder(model_order, providers)
             /\ \A i \in 1..Len(outcomes) : outcomes[i] # "success"

C4_Witness ==
    /\ llm_pc = "done"
    /\ outcomes = <<"failure", "exception", "success">>
    /\ llm_result.model = invoked[3]

\* C5: only configured backends are invoked; when the preferred backend is
\* not configured the backends tried are the default followed by the
\* configured fallback entries (Scenario B: the attempts are gigachat only).
C5_OnlyConfiguredInvoked ==
    /\ \A i \in 1..Len(invoked) : invoked[i] \in providers
    /\ (llm_pc # "idle" /\ preferred_model \notin providers) =>
          LET ConfiguredOther(m) == m \in providers /\ m # default_model
              expected == (IF default_model \in providers
                           THEN <<default_model>> ELSE <<>>)
                          \o SelectSeq(fallback_models, ConfiguredOther)
          IN /\ IsPrefix(invoked, expected)
             /\ (llm_pc = "done" /\ ~llm_result.success) => invoked = expected
    /\ ( /\ llm_pc = "done"
         /\ providers = {"gigachat"}
         /\ default_model = "gigachat"
         /\ fallback_models = <<"deepseek", "openai">>
         /\ preferred_model = "deepseek" ) => invoked = <<"gigachat">>

C5_Witness ==
    /\ llm_pc = "done"
    /\ providers = {"gigachat"}
    /\ default_model = "gigachat"
    /\ fallback_models = <<"deepseek", "openai">>
    /\ preferred_model = "deepseek"
    /\ invoked = <<"gigachat">>
    /\ outcomes = <<"failure">>

(***************************************************************************)
(* The history window and the prompt on their own: stored conversations,   *)
(* retrieval results and queries are inputs, the functions are applied     *)
(***************************************************************************)
\* the role of the i-th turn of a dialogue that starts with the user
DialogueRole(i) == IF i % 2 = 1 THEN "user" ELSE "assistant"

\* n rows of session 1; the rows at the positions in strays are system turns
StoredRows(n, strays) ==
    [i \in 1..n |-> [session_id |-> 1,
                     role |-> IF i \in strays THEN "system" ELSE DialogueRole(i),
                     content |-> ToString(i)]]

StoreInputs ==
    { StoredRows(n, strays) :
        n \in 0..MaxHistory,
        strays \in {S \in SUBSET (1..MaxHistory) : Cardinality(S) <= MaxStray} }

ContextInputs ==
    { SearchRelevantContext(answer) : answer \in IndexAnswers \ {<<Hit(3, 80, None)>>} }

InitWindow ==
    /\ InitDefaultSettings
    /\ providers = BackendNames
    /\ llm_pc = "idle"
    /\ preferred_model = None
    /\ model_order = <<>>
    /\ order_idx = 1
    /\ invoked = <<>>
    /\ outcomes = <<>>
    /\ llm_result = NoResult
    /\ InitRequest
    /\ InitMem
    /\ InitExt
    /\ db_sessions = <<NewSession(<<>>, CurrentUserId)>>
    /\ db_messages \in StoreInputs

\* the inputs of one application: the query and the retrieval results
WindowInputs ==
    /\ pc = "idle"
    /\ \E query \in Queries, ctx \in ContextInputs :
         /\ user_message' = query
         /\ context_results' = ctx
    /\ pc' = "input"
    /\ UNCHANGED <<entry, handled, req_session_id, req_preferred, session,
                   conversation_history, session_context, retrieval_fault,
                   messages, rag_result, conv_result, service_result, replies,
                   dbVars, llmVars, memVars, extVars, libVars>>

\* _get_conversation_history applied to the stored conversation
ApplyGetConversationHistory ==
    /\ pc = "input"
    /\ conversation_history' = GetConversationHistory(db_messages, 1, HistoryLimit)
    /\ pc' = "history"
    /\ UNCHANGED <<entry, handled, user_message, req_session_id, req_preferred,
                   session, session_context, context_results, retrieval_fault,
                   messages, rag_result, conv_result, service_result, replies,
                   dbVars, llmVars, memVars, extVars, libVars>>

\* a caller that passes the turns as it holds them, timestamps included
ApplyCallerHistory ==
    /\ pc = "input"
    /\ conversation_history' =
         [i \in 1..Len(db_messages) |->
            [role |-> db_messages[i].role, content |-> db_messages[i].content,
             timestamp |-> i]]
    /\ pc' = "history"
    /\ UNCHANGED <<entry, handled, user_message, req_session_id, req_preferred,
                   session, session_context, context_results, retrieval_fault,
                   messages, rag_result, conv_result, service_result, replies,
                   dbVars, llmVars, memVars, extVars, libVars>>

\* _prepare_session_context applied
ApplyPrepareSessionContext ==
    /\ pc = "history"
    /\ session_context' = PrepareSessionContext(conversation_history)
    /\ pc' = "window"
    /\ UNCHANGED <<entry, handled, user_message, req_session_id, req_preferred,
                   session, conversation_history, context_results, retrieval_fault,
                   messages, rag_result, conv_result, service_result, replies,
                   dbVars, llmVars, memVars, extVars, libVars>>

\* process_query called with the turns themselves as session_context
ApplyRawContext ==
    /\ pc = "history"
    /\ session_context' = conversation_history
    /\ pc' = "raw_window"
    /\ UNCHANGED <<entry, handled, user_message, req_session_id, req_preferred,
                   session, conversation_history, context_results, retrieval_fault,
                   messages, rag_result, conv_result, service_result, replies,
                   dbVars, llmVars, memVars, extVars, libVars>>

\* _build_messages applied
ApplyBuildMessages ==
    /\ pc \in {"window", "raw_window"}
    /\ messages' = BuildMessages(user_message, context_results, session_context)
    /\ pc' = IF pc = "window" THEN "built" ELSE "raw_built"
    /\ UNCHANGED <<entry, handled, user_message, req_session_id, req_preferred,
                   session, conversation_history, session_context, context_results,
                   retrieval_fault, rag_result, conv_result, service_result,
                   replies, dbVars, llmVars, memVars, extVars, libVars>>

NextWindow ==
    \/ WindowInputs
    \/ ApplyGetConversationHistory
    \/ ApplyCallerHistory
    \/ ApplyPrepareSessionContext
    \/ ApplyRawContext
    \/ ApplyBuildMessages

SpecWindow == InitWindow /\ [][NextWindow]_vars

\* messages before the history turns
LeadingMessages == IF context_results # <<>> THEN 2 ELSE 1

\* C8: _build_messages returns the system instruction first, then one system
\* message with the context if and only if there are retrieval results, then
\* the history turns in order and unchanged, and last one user message with
\* the query.
C8_MessageOrder ==
    pc \in {"built", "raw_built"} =>
        LET n == Len(messages)
            contextText == "context:" \o FormatContextForPrompt(context_results)
        IN /\ n = LeadingMessages + Len(session_context) + 1
           /\ messages[1] = [role |-> "system", content |-> SystemPrompt]
           /\ Cardinality({i \in 1..n : messages[i].content = contextText})
                = IF context_results # <<>> THEN 1 ELSE 0
           /\ context_results # <<>> =>
                messages[2] = [role |-> "system", content |-> contextText]
           /\ \A i \in 1..Len(session_context) :
                messages[LeadingMessages + i] = session_context[i]
           /\ messages[n] = [role |-> "user", content |-> user_message]

C8_Witness ==
    /\ pc = "built"
    /\ Len(context_results) = 1
    /\ Len(session_context) = 10
    /\ Len(messages) = 13

\* positions of the history that the window keeps
KeptPositions(history) ==
    { i \in 1..Len(history) :
        /\ i > Len(history) - MaxContextLength
        /\ history[i].role \in {"user", "assistant"} }

\* C9: _prepare_session_context returns the user and assistant turns among the
\* last 10 entries of the history, in order, at most 10 of them and none with
\* another role; a stored history of 12 dialogue turns puts exactly its last
\* 10 turns, in order, between the leading messages and the final query.
C9_WindowIsTail ==
    /\ pc \in {"window", "built"} =>
          LET kept == KeptPositions(conversation_history) IN
          /\ Len(session_context) = Cardinality(kept)
          /\ Len(session_context) <= MaxContextLength
          /\ \A j \in 1..Len(session_context) :
               /\ session_context[j].role \in {"user", "assistant"}
               /\ \E i \in kept :
                    /\ Cardinality({m \in kept : m <= i}) = j
                    /\ session_context[j]
                         = [role |-> conversation_history[i].role,
                            content |-> conversation_history[i].content]
    /\ ( /\ pc = "built"
         /\ Len(db_messages) = 12
         /\ \A i \in 1..12 : db_messages[i].role # "system" ) =>
          /\ Len(messages) = LeadingMessages + 10 + 1
          /\ \A j \in 1..10 :
               messages[LeadingMessages + j]
                 = [role |-> db_messages[j + 2].role,
                    content |-> db_messages[j + 2].content]
          /\ messages[Len(messages)] = [role |-> "user", content |-> user_message]

C9_Witness ==
    /\ pc = "built"
    /\ Len(db_messages) = 12
    /\ \A i \in 1..12 : db_messages[i].role # "system"
    /\ Len(session_context) = 10
    /\ session_context[1].content = "3"
    /\ session_context[10].content = "12"

(***************************************************************************)
(* update_conversation_history called repeatedly on a caller's history     *)
(***************************************************************************)
\* a history of n earlier dialogue turns
EarlierHistory(n) ==
    [i \in 1..n |-> [role |-> DialogueRole(i), content |-> ToString(i),
                     timestamp |-> 0]]

InitHistory ==
    /\ InitLLM
    /\ providers = BackendNames
    /\ default_model = "gigachat"
    /\ fallback_models = <<"deepseek", "openai">>
    /\ InitRequest
    /\ InitExt
    /\ db_sessions = <<>>
    /\ db_messages = <<>>
    /\ mem_history \in {EarlierHistory(n) : n \in 0..MaxStored}
    /\ mem_prev = <<>>
    /\ mem_args = <<>>
    /\ mem_calls = 0
    /\ clock = 1

\* one call; the caller keeps the returned list
CallUpdateConversationHistory ==
    /\ mem_calls < MaxCalls
    /\ \E user_msg \in {"q1", "q2"}, assistant_response \in {"a1", "a2"} :
         /\ mem_history' = UpdateConversationHistory(mem_history, user_msg,
                                                     assistant_response, clock)
         /\ mem_args' = <<user_msg, assistant_response>>
    /\ mem_prev' = mem_history
    /\ mem_calls' = mem_calls + 1
    /\ clock' = clock + 2
    /\ UNCHANGED <<llmVars, reqVars, dbVars, extVars, libVars>>

NextHistory == CallUpdateConversationHistory

SpecHistory == InitHistory /\ [][NextHistory]_vars

\* C10: after any sequence of update_conversation_history calls from any
\* history the returned history has at most 20 entries, is the tail of the
\* extended history, and ends with the appended user turn followed by the
\* appended assistant turn.
C10_HistoryCapped ==
    mem_calls > 0 =>
        LET n == Len(mem_history)
            older == n - 2
        IN /\ n <= 2 * MaxContextLength
           /\ n = Min(Len(mem_prev) + 2, 2 * MaxContextLength)
           /\ mem_history[n - 1].role = "user"
           /\ mem_history[n - 1].content = mem_args[1]
           /\ mem_history[n].role = "assistant"
           /\ mem_history[n].content = mem_args[2]
           /\ mem_history[n - 1].timestamp <= mem_history[n].timestamp
           /\ \A i \in 1..older :
                mem_history[i] = mem_prev[Len(mem_prev) - older + i]

C10_Witness ==
    /\ mem_calls = 2
    /\ Len(mem_prev) = 20
    /\ Len(mem_history) = 20
    /\ mem_history[18].content = mem_prev[20].content

(***************************************************************************)
(* Retrieval on its own: the index answers a query, search_similar         *)
(* converts its distances, search_relevant_context filters, process_query  *)
(* surfaces what is left                                                   *)
(***************************************************************************)
\* distances collection.query can return, in hundredths; the collection is
\* created with Chroma's default space, whose distance is not bounded by 1
Distances == {0, 10, 30, 40, 50, 70, 150}

\* thresholds settings.similarity_threshold is configured with, in hundredths
Thresholds == {50, SimilarityThreshold}

\* the rows of one query result: nearest first, ids by rank
IndexRows(dists) ==
    [i \in 1..Len(dists) |->
        [id |-> i, text |-> "chunk", metadata |-> "title_a", distance |-> dists[i]]]

IndexResults ==
    { IndexRows(dists) : dists \in
        { d \in SeqUpTo(Distances, MaxHits) :
            \A i \in 1..Len(d) : \A j \in i..Len(d) : d[i] <= d[j] } }

\* search_similar: one dict per row, similarity = 1 - distance
SearchSimilar(rows) ==
    [i \in 1..Len(rows) |->
        [id |-> rows[i].id, text |-> rows[i].text, metadata |-> rows[i].metadata,
         distance |-> rows[i].distance, similarity |-> 100 - rows[i].distance]]

InitRetrieval ==
    /\ InitDefaultSettings
    /\ providers = BackendNames
    /\ llm_pc = "idle"
    /\ preferred_model = None
    /\ model_order = <<>>
    /\ order_idx = 1
    /\ invoked = <<>>
    /\ outcomes = <<>>
    /\ llm_result = NoResult
    /\ InitRequest
    /\ InitDb
    /\ InitMem
    /\ similarity_threshold \in Thresholds
    /\ index_answer = <<>>
    /\ search_results = <<>>
    /\ access_token = None
    /\ caller_pc = [c \in 1..MaxCallers |-> "idle"]
    /\ documents = <<>>
    /\ query_words = {}
    /\ vector_weight = DefaultVectorWeight
    /\ top_k = DefaultTopK
    /\ vector_results = <<>>
    /\ keyword_results = <<>>
    /\ final_results = <<>>
    /\ order_log = <<>>
    /\ InitLib

\* search_similar called for a query: the index answers, or the embedding or
\* index call raises and the except branch returns []
SearchSimilarCall ==
    /\ pc = "idle"
    /\ \E query \in Queries, rows \in IndexResults, fault \in BOOLEAN :
         /\ user_message' = query
         /\ retrieval_fault' = fault
         /\ index_answer' = rows
         /\ search_results' = IF fault THEN <<>> ELSE SearchSimilar(rows)
    /\ pc' = "searched"
    /\ UNCHANGED <<entry, handled, req_session_id, req_preferred, session,
                   conversation_history, session_context, context_results,
                   messages, rag_result, conv_result, service_result, replies>>
    /\ UNCHANGED <<llmVars, dbVars, memVars, similarity_threshold, tokVars,
                   hybVars, order_log, libVars>>

\* search_relevant_context applied to what search_similar returned
SearchRelevantContextCall ==
    /\ pc = "searched"
    /\ context_results' = SearchRelevantContext(search_results)
    /\ pc' = "filtered"
    /\ UNCHANGED <<entry, handled, user_message, req_session_id, req_preferred,
                   session, conversation_history, session_context,
                   retrieval_fault, messages, rag_result, conv_result,
                   service_result, replies>>
    /\ UNCHANGED <<llmVars, dbVars, memVars, extVars, libVars>>

\* process_query with that context and a backend that answers: the prompt
\* and the result dict
SurfaceContext ==
    /\ pc = "filtered"
    /\ messages' = BuildMessages(user_message, context_results, session_context)
    /\ rag_result' = NormalizeResult(ProviderResult(default_model, "success"),
                                     context_results)
    /\ pc' = "surfaced"
    /\ UNCHANGED <<entry, handled, user_message, req_session_id, req_preferred,
                   session, conversation_history, session_context, context_results,
                   retrieval_fault, conv_result, service_result, replies>>
    /\ UNCHANGED <<llmVars, dbVars, memVars, extVars, libVars>>

\* the threshold filter of search_relevant_context applied to the list it
\* returned, under the same settings
FilterAgain ==
    /\ pc = "filtered"
    /\ context_results' = SearchRelevantContext(context_results)
    /\ pc' = "refiltered"
    /\ UNCHANGED <<entry, handled, user_message, req_session_id, req_preferred,
                   session, conversation_history, session_context,
                   retrieval_fault, messages, rag_result, conv_result,
                   service_result, replies>>
    /\ UNCHANGED <<llmVars, dbVars, memVars, extVars, libVars>>

NextRetrieval ==
    \/ SearchSimilarCall
    \/ SearchRelevantContextCall
    \/ SurfaceContext
    \/ FilterAgain

SpecRetrieval == InitRetrieval /\ [][NextRetrieval]_vars

\* ranks of the search results whose similarity is at or above the threshold
AtOrAbove ==
    { i \in 1..Len(search_results) :
        search_results[i].similarity >= similarity_threshold }

\* C14: the context retrieval surfaces is exactly the ranked results whose
\* similarity is at or above the configured threshold, in ranked order: none
\* below it reaches the prompt or context_sources, none at or above it is
\* dropped (similarities 0.9, 0.6, 0.3 with threshold 0.5 surface the first
\* two, in that order).
C14_ThresholdFilterExact ==
    /\ pc \in {"filtered", "surfaced"} =>
          /\ Len(context_results) = Cardinality(AtOrAbove)
          /\ \A j \in 1..Len(context_results) :
               \E i \in AtOrAbove :
                    /\ Cardinality({m \in AtOrAbove : m <= i}) = j
                    /\ context_results[j] = search_results[i]
    /\ pc = "surfaced" =>
          /\ Len(rag_result.context_sources) = Cardinality(AtOrAbove)
          /\ \A j \in 1..Len(rag_result.context_sources) :
               /\ rag_result.context_sources[j].id = context_results[j].id
               /\ rag_result.context_sources[j].similarity >= similarity_threshold
          /\ (AtOrAbove # {}) =>
                messages[2].content
                  = "context:" \o FormatContextForPrompt(context_results)
          /\ ( /\ similarity_threshold = 50
               /\ ~retrieval_fault
               /\ [i \in 1..Len(index_answer) |-> index_answer[i].distance]
                    = <<10, 40, 70>> ) =>
                [j \in 1..Len(rag_result.context_sources) |->
                    rag_result.context_sources[j].id] = <<1, 2>>

C14_Witness ==
    /\ pc = "surfaced"
    /\ similarity_threshold = 50
    /\ Len(search_results) = 3
    /\ [i \in 1..3 |-> search_results[i].similarity] = <<90, 60, 30>>
    /\ [j \in 1..Len(rag_result.context_sources) |->
            rag_result.context_sources[j].id] = <<1, 2>>

\* C25: the threshold filter is idempotent: applied to a list it has
\* already filtered, at the same threshold, it returns the same list in the
\* same order.
C25_FilterIdempotent ==
    [][(pc = "filtered" /\ pc' = "refiltered")
          => context_results' = context_results]_vars

\* a list the first pass shortened to two results has been filtered again
C25_Witness ==
    /\ pc = "refiltered"
    /\ Len(search_results) = 3
    /\ Len(context_results) = 2
    /\ context_results[1].similarity > context_results[2].similarity

\* C15: every similarity the core produces or surfaces lies in [0,1]: the
\* similarity search_similar derives from a distance, and the similarities in
\* context_sources and similarity_scores; an out-of-range value is clamped.
C15_ScoresInUnitRange ==
    /\ \A i \in 1..Len(search_results) :
         /\ search_results[i].similarity >= 0
         /\ search_results[i].similarity <= 100
    /\ pc = "surfaced" =>
         \A j \in 1..Len(rag_result.similarity_scores) :
            /\ rag_result.similarity_scores[j] >= 0
            /\ rag_result.similarity_scores[j] <= 100

(***************************************************************************)
(* The GigaChat adapter used by several units of work at once: the event   *)
(* loop switches between them at every await                               *)
(***************************************************************************)
Callers == 1..MaxCallers

\* what the /auth endpoint can answer: a token, a 200 body without
\* access_token, or another status
AuthAnswers(c) == {"token_" \o ToString(c), None, "error"}

InitToken ==
    /\ InitChat
    /\ "gigachat" \in providers

\* generate_response up to its first await: _get_access_token returns the
\* cached token and the chat request is sent, or the token request is sent
GetAccessToken(c) ==
    /\ caller_pc[c] = "idle"
    /\ caller_pc' = [caller_pc EXCEPT ![c] = IF Truthy(access_token)
                                             THEN "chat" ELSE "auth"]
    /\ UNCHANGED access_token

\* the token request of caller c is answered: status 200 stores
\* result.get("access_token") and the chat request is sent; another status
\* raises and generate_response returns success=False
AuthResponse(c) ==
    /\ caller_pc[c] = "auth"
    /\ \E answer \in AuthAnswers(c) :
         IF answer = "error"
         THEN /\ caller_pc' = [caller_pc EXCEPT ![c] = "failed"]
              /\ UNCHANGED access_token
         ELSE /\ access_token' = answer
              /\ caller_pc' = [caller_pc EXCEPT ![c] = "chat"]

\* the chat request of caller c is answered
ChatResponse(c) ==
    /\ caller_pc[c] = "chat"
    /\ \E ok \in BOOLEAN :
         caller_pc' = [caller_pc EXCEPT ![c] = IF ok THEN "succeeded" ELSE "failed"]
    /\ UNCHANGED access_token

\* generate_response of caller c has returned
CallerReturns(c) ==
    /\ caller_pc[c] \in {"succeeded", "failed"}
    /\ caller_pc' = [caller_pc EXCEPT ![c] = "idle"]
    /\ UNCHANGED access_token

GigaChatGetAccessToken ==
    /\ \E c \in Callers : GetAccessToken(c)
    /\ UNCHANGED <<llmVars, reqVars, dbVars, memVars, retVars, hybVars, order_log, libVars>>

GigaChatAuthResponse ==
    /\ \E c \in Callers : AuthResponse(c)
    /\ UNCHANGED <<llmVars, reqVars, dbVars, memVars, retVars, hybVars, order_log, libVars>>

GigaChatChatResponse ==
    /\ \E c \in Callers : ChatResponse(c)
    /\ UNCHANGED <<llmVars, reqVars, dbVars, memVars, retVars, hybVars, order_log, libVars>>

GigaChatReturn ==
    /\ \E c \in Callers : CallerReturns(c)
    /\ UNCHANGED <<llmVars, reqVars, dbVars, memVars, retVars, hybVars, order_log, libVars>>

NextToken ==
    \/ GigaChatGetAccessToken
    \/ GigaChatAuthResponse
    \/ GigaChatChatResponse
    \/ GigaChatReturn

SpecToken == InitToken /\ [][NextToken]_vars

\* callers whose token request is in flight
RefreshInFlight == {c \in Callers : caller_pc[c] = "auth"}

\* C16: with no token cached and several units of work calling the adapter
\* at once, at most one token request is in flight at any time; a second
\* caller waits for the first one's token instead of sending its own request.
C16_SingleRefreshInFlight == Cardinality(RefreshInFlight) <= 1

\* C27: the cached access token, once set, is never replaced or cleared
\* while the provider lives: token requests are sent only while no token is
\* cached, later calls reuse the cached token also after the chat endpoint
\* rejected a call, and a failed acquisition leaves the cache empty and
\* ends in success=false.
C27_TokenSetOnce ==
    [][ /\ Truthy(access_token) => access_token' = access_token
        /\ \A c \in Callers :
              /\ (caller_pc[c] = "idle" /\ caller_pc'[c] = "auth")
                    => ~Truthy(access_token)
              /\ (caller_pc[c] = "auth" /\ caller_pc'[c] = "failed")
                    => access_token' = access_token ]_vars

(***************************************************************************)
(* The router with the provider call split at its await: the backend may   *)
(* answer, or never answer, in which case the HTTP client's total timeout  *)
(* ends the request                                                        *)
(***************************************************************************)
\* a loop iteration up to the await of provider.generate_response
AwaitProvider ==
    /\ llm_pc = "loop"
    /\ order_idx <= Len(model_order)
    /\ ~SkipsModel(model_order[order_idx], providers)
    /\ invoked' = Append(invoked, model_order[order_idx])
    /\ llm_pc' = "awaiting"
    /\ UNCHANGED <<providers, default_model, fallback_models, preferred_model,
                   model_order, order_idx, outcomes, llm_result>>
    /\ UNCHANGED <<reqVars, dbVars, memVars, extVars, libVars>>

\* the backend answers and the provider returns or raises
ProviderAnswers ==
    /\ llm_pc = "awaiting"
    /\ \E outcome \in ProviderOutcomes :
         /\ outcomes' = Append(outcomes, outcome)
         /\ IF outcome = "success"
            THEN /\ llm_result' = ProviderResult(Last(invoked), outcome)
                 /\ llm_pc' = "done"
                 /\ UNCHANGED order_idx
            ELSE /\ order_idx' = order_idx + 1
                 /\ llm_pc' = "loop"
                 /\ UNCHANGED llm_result
    /\ UNCHANGED <<providers, default_model, fallback_models, preferred_model,
                   model_order, invoked>>
    /\ UNCHANGED <<reqVars, dbVars, memVars, extVars, libVars>>

\* a client session that never gives up on the request
ProviderTimesOut_Never ==
    /\ FALSE
    /\ UNCHANGED vars

\* the backend has not answered when the total timeout of the provider's
\* aiohttp.ClientSession() expires: the request raises TimeoutError, the
\* provider's except branch returns success=False, the loop goes on
ProviderTimesOut ==
    /\ llm_pc = "awaiting"
    /\ outcomes' = Append(outcomes, "timeout")
    /\ order_idx' = order_idx + 1
    /\ llm_pc' = "loop"
    /\ UNCHANGED <<providers, default_model, fallback_models, preferred_model,
                   model_order, invoked, llm_result>>
    /\ UNCHANGED <<reqVars, dbVars, memVars, extVars, libVars>>

InitTimeout == InitChat

NextTimeout ==
    \/ DirectCall
    \/ LoopSkip
    \/ AwaitProvider
    \/ ProviderAnswers
    \/ ProviderTimesOut
    \/ LoopExhausted
    \/ GenerateReturn

\* the coroutine runs when it can, and the client's timer fires; nothing
\* makes a backend answer
SpecTimeout ==
    /\ InitTimeout
    /\ [][NextTimeout]_vars
    /\ WF_vars(LoopSkip)
    /\ WF_vars(AwaitProvider)
    /\ WF_vars(ProviderTimesOut)
    /\ WF_vars(LoopExhausted)

\* a timed-out attempt counts as a failed one: it is never what the call
\* returns, and the chain goes on to the backends after it
TimeoutIsFailure ==
    /\ (llm_pc = "done" /\ llm_result.success) =>
          /\ Last(outcomes) = "success"
          /\ llm_result.model = Last(invoked)
    /\ (llm_pc = "done" /\ \A i \in 1..Len(outcomes) : outcomes[i] # "success") =>
          /\ llm_result = SentinelResult
          /\ invoked = EffectiveOrder(model_order, providers)

\* C17: a backend call that gets no answer is abandoned after a bounded
\* timeout and counted as a failed attempt: the wait on one backend always
\* ends, and every call of generate_response eventually returns.
C17_UnresponsiveBackendAbandoned ==
    /\ []TimeoutIsFailure
    /\ (llm_pc = "awaiting") ~> (llm_pc \in {"loop", "done"})
    /\ (llm_pc \in {"loop", "awaiting"}) ~> (llm_pc = "done")

C17_Witness ==
    /\ llm_pc = "done"
    /\ Len(invoked) = 3
    /\ outcomes = <<"timeout", "timeout", "success">>
    /\ llm_result.model = invoked[3]

(***************************************************************************)
(* Successive router calls under one configuration, each call's inputs and *)
(* attempt order written down                                              *)
(***************************************************************************)
\* how the call before ended
PreviousCall ==
    IF llm_result = NoResult THEN "none"
    ELSE IF llm_result.success THEN "success" ELSE "failure"

InitOrder ==
    /\ \E g \in BOOLEAN, d \in BOOLEAN, o \in BOOLEAN :
         providers = InitializeProviders(g, d, o)
    /\ default_model \in BackendNames
    /\ fallback_models \in SeqUpTo(BackendNames, MaxOrderFallback)
    /\ llm_pc = "idle"
    /\ preferred_model = None
    /\ model_order = <<>>
    /\ order_idx = 1
    /\ invoked = <<>>
    /\ outcomes = <<>>
    /\ llm_result = NoResult
    /\ InitRequest
    /\ db_sessions = <<>>
    /\ db_messages = <<>>
    /\ InitMem
    /\ InitExt

\* a call of generate_response; the observer notes preferred_model, the
\* order the call built and how the call before it ended
RecordedCall ==
    /\ Len(order_log) < MaxOrderCalls
    /\ \E preferred \in BackendNames \cup {None} :
         /\ GenerateStart(preferred)
         /\ order_log' = Append(order_log, [preferred |-> preferred,
                                            order |-> model_order',
                                            after |-> PreviousCall])
    /\ UNCHANGED <<reqVars, dbVars, memVars, retVars, tokVars, hybVars, libVars>>

NextOrder ==
    \/ RecordedCall
    \/ LoopSkip
    \/ LoopAttempt
    \/ LoopExhausted
    \/ GenerateReturn

SpecOrder == InitOrder /\ [][NextOrder]_vars

Words == {"ssl", "nginx"}

\* what encode_text returns: vectors of norm 1
Embeddings == { <<1, 0>>, <<0, 1>> }

\* encode_text(query)
QueryEmbedding == <<1, 0>>

\* metadata dicts of candidates: without an id, or with one
Metadatas == { [title |-> "doc"], [title |-> "doc", id |-> 101],
               [title |-> "doc", id |-> 102] }

\* a candidate: its text as the set of its lower-cased words, the embedding
\* encode_text gives for the text, and its metadata
Candidates ==
    [text : {{"ssl"}, {"nginx"}}, embedding : Embeddings, metadata : Metadatas]

\* hash(str(doc)): an integer fixed by the content of doc, not a list index
\* and not an id
StrHash(doc) ==
    1000 + (IF "ssl" \in doc.text THEN 1 ELSE 0)
         + (IF "nginx" \in doc.text THEN 2 ELSE 0)
         + 4 * ((doc.embedding[1] + 1) + 3 * (doc.embedding[2] + 1))
         + 36 * Get(doc.metadata, "id", 0)

\* list.sort(key, reverse=True): descending, equal keys keep their order
StableSortDesc(seq, keys) ==
    LET n == Len(seq)
        Pos(i) == 1 + Cardinality({j \in 1..n : keys[j] > keys[i]})
                    + Cardinality({j \in 1..(i - 1) : keys[j] = keys[i]})
    IN [p \in 1..n |-> seq[CHOOSE i \in 1..n : Pos(i) = p]]

\* float('nan'), what numpy computes for 0 / 0: a value that is no number
\* of [-1, 1]
NaN == 100000

\* np.linalg.norm(vec), for the vectors whose norm is a whole number
Norm(vec) ==
    LET squares[i \in 0..Len(vec)] ==
            IF i = 0 THEN 0 ELSE squares[i - 1] + vec[i] * vec[i]
    IN CHOOSE n \in 0..squares[Len(vec)] : n * n = squares[Len(vec)]

\* the sum np.dot forms over vectors of one length
Dot(a, b) ==
    LET sums[i \in 0..Len(a)] ==
            IF i = 0 THEN 0 ELSE sums[i - 1] + a[i] * b[i]
    IN sums[Len(a)]

\* calculate_similarity, in hundredths. Dividing a numpy array by a norm of
\* 0.0 raises nothing: each component becomes 0 / 0 = nan, and np.dot of a
\* nan vector is nan. np.dot raises for vectors of different lengths and
\* the except branch returns 0.0; the dot product of two empty arrays is 0.0
CalculateSimilarity(embedding1, embedding2) ==
    IF Len(embedding1) # Len(embedding2) THEN 0
    ELSE IF Len(embedding1) = 0 THEN 0
    ELSE IF Norm(embedding1) = 0 \/ Norm(embedding2) = 0 THEN NaN
    ELSE (100 * Dot(embedding1, embedding2))
            \div (Norm(embedding1) * Norm(embedding2))

\* find_most_similar: index (from 0) and similarity of each candidate,
\* best first, the first k
FindMostSimilar(query_embedding, candidate_embeddings, k) ==
    LET similarities ==
            [i \in 1..Len(candidate_embeddings) |->
                [index |-> i - 1,
                 similarity |-> CalculateSimilarity(query_embedding,
                                                    candidate_embeddings[i])]]
    IN FirstN(StableSortDesc(similarities,
                             [i \in 1..Len(similarities) |->
                                 similarities[i].similarity]), k)

\* a variant that divides by the number of words of the document
KeywordSearch_ByDocumentSize(qwords, docs, k) ==
    LET scored_docs ==
            [i \in 1..Len(docs) |->
                [document |-> docs[i],
                 keyword_score |->
                    IF qwords # {} /\ docs[i].text # {}
                    THEN (100 * Cardinality(qwords \cap docs[i].text))
                            \div Cardinality(docs[i].text)
                    ELSE 0]]
    IN FirstN(StableSortDesc(scored_docs,
                             [i \in 1..Len(scored_docs) |->
                                 scored_docs[i].keyword_score]), k)

\* keyword_search: share of the query's words found in the text, in
\* hundredths, best first, the first k
KeywordSearch(qwords, docs, k) ==
    LET scored_docs ==
            [i \in 1..Len(docs) |->
                [document |-> docs[i],
                 keyword_score |->
                    IF qwords # {}
                    THEN (100 * Cardinality(qwords \cap docs[i].text))
                            \div Cardinality(qwords)
                    ELSE 0]]
    IN FirstN(StableSortDesc(scored_docs,
                             [i \in 1..Len(scored_docs) |->
                                 scored_docs[i].keyword_score]), k)

\* the key of a vector result in the dict combined_scores: the id in the
\* candidate's metadata, or its list index
VectorKey(result, docs) ==
    Get(docs[result.index + 1].metadata, "id", result.index)

\* the key of a keyword result: the id in the candidate's metadata, or
\* hash(str(doc))
KeywordKey(result) ==
    Get(result.document.metadata, "id", StrHash(result.document))

\* the dict combined_scores after the two loops, as its values in insertion
\* order: a key is inserted by the first result that has it (vector results
\* before keyword results) and keeps that result's document; its
\* vector_score and keyword_score are those of the last vector and keyword
\* result with the key, 0 when there is none
MergeResults(vresults, kresults, docs) ==
    LET nv == Len(vresults)
        nk == Len(kresults)
        vkeys == [i \in 1..nv |-> VectorKey(vresults[i], docs)]
        kkeys == [i \in 1..nk |-> KeywordKey(kresults[i])]
        InsertsV(i) == \A j \in 1..(i - 1) : vkeys[j] # vkeys[i]
        InsertsK(i) == /\ \A j \in 1..(i - 1) : kkeys[j] # kkeys[i]
                       /\ \A j \in 1..nv : vkeys[j] # kkeys[i]
        LastV(key) == {i \in 1..nv : vkeys[i] = key
                                     /\ \A j \in (i + 1)..nv : vkeys[j] # key}
        LastK(key) == {i \in 1..nk : kkeys[i] = key
                                     /\ \A j \in (i + 1)..nk : kkeys[j] # key}
        VectorScore(key) == IF LastV(key) = {} THEN 0
                            ELSE vresults[CHOOSE i \in LastV(key) : TRUE].similarity
        KeywordScore(key) == IF LastK(key) = {} THEN 0
                             ELSE kresults[CHOOSE i \in LastK(key) : TRUE].keyword_score
        fromV == SelectSeq([i \in 1..nv |-> i], InsertsV)
        fromK == SelectSeq([i \in 1..nk |-> i], InsertsK)
    IN [p \in 1..Len(fromV) |->
           [key |-> vkeys[fromV[p]],
            document |-> docs[vresults[fromV[p]].index + 1],
            vector_score |-> VectorScore(vkeys[fromV[p]]),
            keyword_score |-> KeywordScore(vkeys[fromV[p]]),
            combined_score |-> 0]]
       \o
       [p \in 1..Len(fromK) |->
           [key |-> kkeys[fromK[p]],
            document |-> kresults[fromK[p]].document,
            vector_score |-> 0,
            keyword_score |-> KeywordScore(kkeys[fromK[p]]),
            combined_score |-> 0]]

\* a variant that adds the two scores without weighting the keyword score
CombinedScores_KeywordUnweighted(combined, weight) ==
    [i \in 1..Len(combined) |->
        [combined[i] EXCEPT !.combined_score =
            weight * combined[i].vector_score
            + 100 * combined[i].keyword_score]]

\* the loop that fills combined_score; weight and scores are in hundredths,
\* the product in ten-thousandths
CombinedScores(combined, weight) ==
    [i \in 1..Len(combined) |->
        [combined[i] EXCEPT !.combined_score =
            weight * combined[i].vector_score
            + (100 - weight) * combined[i].keyword_score]]

\* a variant whose sort puts later insertions first among equal scores
FinalResults_TiesReversed(combined, k) ==
    Reverse(LastN(StableSortDesc(combined,
                                 [i \in 1..Len(combined) |->
                                     0 - combined[i].combined_score]),
                  k))

\* the end of hybrid_search: values of the dict sorted by combined_score,
\* the first k
FinalResults(combined, k) ==
    FirstN(StableSortDesc(combined,
                          [i \in 1..Len(combined) |-> combined[i].combined_score]),
           k)

\* candidate pools: up to MaxDocs candidates
DocumentPools == SeqUpTo(Candidates, MaxDocs)

\* values of the parameter vector_weight, in hundredths: the two ends of
\* [0,1] and the default
VectorWeights == {0, DefaultVectorWeight, 100}

InitHybrid ==
    /\ InitDefaultSettings
    /\ providers = BackendNames
    /\ llm_pc = "idle"
    /\ preferred_model = None
    /\ model_order = <<>>
    /\ order_idx = 1
    /\ invoked = <<>>
    /\ outcomes = <<>>
    /\ llm_result = NoResult
    /\ InitRequest
    /\ db_sessions = <<>>
    /\ db_messages = <<>>
    /\ InitMem
    /\ similarity_threshold = SimilarityThreshold
    /\ index_answer = <<>>
    /\ search_results = <<>>
    /\ access_token = None
    /\ caller_pc = [c \in 1..MaxCallers |-> "idle"]
    /\ documents \in DocumentPools
    /\ query_words \in SUBSET Words
    /\ vector_weight \in VectorWeights
    /\ top_k \in {1, DefaultTopK}
    /\ vector_results = <<>>
    /\ keyword_results = <<>>
    /\ final_results = <<>>
    /\ order_log = <<>>
    /\ InitLib

\* hybrid_search(query, documents, vector_weight, top_k); when encode_text
\* raises, the except branch returns []
HybridSearchCall ==
    /\ pc = "idle"
    /\ \E fault \in BOOLEAN :
         /\ retrieval_fault' = fault
         /\ IF fault
            THEN /\ vector_results' = <<>>
                 /\ keyword_results' = <<>>
                 /\ final_results' = <<>>
            ELSE \E vresults \in {FindMostSimilar(QueryEmbedding,
                                                    [i \in 1..Len(documents) |->
                                                        documents[i].embedding],
                                                    top_k * 2)},
                    kresults \in {KeywordSearch(query_words, documents, top_k * 2)} :
                   \E combined_scores \in
                          {CombinedScores(MergeResults(vresults, kresults, documents),
                                          vector_weight)} :
                       /\ vector_results' = vresults
                       /\ keyword_results' = kresults
                       /\ final_results' = FinalResults(combined_scores, top_k)
    /\ pc' = "ranked"
    /\ UNCHANGED <<entry, handled, user_message, req_session_id, req_preferred,
                   session, conversation_history, session_context, context_results,
                   messages, rag_result, conv_result, service_result, replies>>
    /\ UNCHANGED <<llmVars, dbVars, memVars, retVars, tokVars, documents,
                   query_words, vector_weight, top_k, order_log, libVars>>

NextHybrid == HybridSearchCall

SpecHybrid == InitHybrid /\ [][NextHybrid]_vars

\* the candidates of the pool are different chunks, and no two carry the
\* same id
DistinctCandidates ==
    \A i \in 1..Len(documents) : \A j \in 1..Len(documents) :
        i # j =>
            /\ documents[i] # documents[j]
            /\ ("id" \in DOMAIN documents[i].metadata
                  /\ "id" \in DOMAIN documents[j].metadata)
                 => documents[i].metadata.id # documents[j].metadata.id

\* the keyword score keyword_search gave to doc, or 0 when it is not in the
\* keyword list
ListedKeywordScore(doc) ==
    IF \E i \in 1..Len(keyword_results) : keyword_results[i].document = doc
    THEN keyword_results[CHOOSE i \in 1..Len(keyword_results) :
                            keyword_results[i].document = doc].keyword_score
    ELSE 0

\* the similarity find_most_similar gave to the candidate at position d, or
\* 0 when it is not in the vector list
ListedVectorScore(d) ==
    IF \E i \in 1..Len(vector_results) : vector_results[i].index = d - 1
    THEN vector_results[CHOOSE i \in 1..Len(vector_results) :
                           vector_results[i].index = d - 1].similarity
    ELSE 0

\* C20: hybrid_search merges the two scored lists by chunk identity: every
\* candidate, with or without an id in its metadata, is in the output at most
\* once, with its vector_score and its keyword_score when it is in both
\* lists, and with 0 for the score of a list it is not in.
C20_MergedByIdentity ==
    (pc = "ranked" /\ ~retrieval_fault /\ DistinctCandidates) =>
        \A d \in 1..Len(documents) :
            LET entries == {i \in 1..Len(final_results) :
                               final_results[i].document = documents[d]}
            IN /\ Cardinality(entries) <= 1
               /\ \A i \in entries :
                    /\ final_results[i].vector_score = ListedVectorScore(d)
                    /\ final_results[i].keyword_score
                         = ListedKeywordScore(documents[d])

\* a hundredths score inside [0,1]
InUnitRange(score) == score >= 0 /\ score <= 100

\* C21: for every weight in [0,1], every entry hybrid_search returns has
\* combined_score = w * vector_score + (1 - w) * keyword_score, and the
\* combined score is inside [0,1] when the two scores are.
C21_CombinedScoreConvex ==
    (pc = "ranked" /\ ~retrieval_fault) =>
        \A i \in 1..Len(final_results) :
            LET r == final_results[i]
            IN /\ r.combined_score
                    = vector_weight * r.vector_score
                      + (100 - vector_weight) * r.keyword_score
               /\ (InUnitRange(r.vector_score) /\ InUnitRange(r.keyword_score))
                    => (r.combined_score >= 0 /\ r.combined_score <= 10000)

\* a returned entry that both searches scored above 0, under the default
\* weight
C21_Witness ==
    /\ pc = "ranked"
    /\ ~retrieval_fault
    /\ vector_weight = DefaultVectorWeight
    /\ \E i \in 1..Len(final_results) :
          /\ final_results[i].vector_score > 0
          /\ final_results[i].keyword_score > 0
          /\ final_results[i].combined_score = 10000

\* the keys the two loops put into the dict combined_scores
MergedKeys ==
    {VectorKey(vector_results[i], documents) : i \in 1..Len(vector_results)}
    \cup {KeywordKey(keyword_results[i]) : i \in 1..Len(keyword_results)}

\* the place of a key in the dict: keys of vector results by vector rank,
\* then keys only keyword results have, by keyword rank
InsertionRank(key) ==
    LET vhits == {i \in 1..Len(vector_results) :
                     VectorKey(vector_results[i], documents) = key}
        khits == {i \in 1..Len(keyword_results) :
                     KeywordKey(keyword_results[i]) = key}
    IN IF vhits # {}
       THEN CHOOSE i \in vhits : \A j \in vhits : i <= j
       ELSE Len(vector_results) + (CHOOSE i \in khits : \A j \in khits : i <= j)

\* the combined score of a key of the dict, from the two result lists
KeyCombinedScore(key) ==
    LET vhits == {i \in 1..Len(vector_results) :
                     VectorKey(vector_results[i], documents) = key}
        khits == {i \in 1..Len(keyword_results) :
                     KeywordKey(keyword_results[i]) = key}
        v == IF vhits = {} THEN 0
             ELSE vector_results[CHOOSE i \in vhits :
                                    \A j \in vhits : j <= i].similarity
        k == IF khits = {} THEN 0
             ELSE keyword_results[CHOOSE i \in khits :
                                     \A j \in khits : j <= i].keyword_score
    IN vector_weight * v + (100 - vector_weight) * k

\* key a comes before key b in the claimed order
RankedBefore(a, b) ==
    \/ KeyCombinedScore(a) > KeyCombinedScore(b)
    \/ /\ KeyCombinedScore(a) = KeyCombinedScore(b)
       /\ InsertionRank(a) < InsertionRank(b)

\* C22: hybrid_search returns the first top_k of the merged candidates in
\* descending order of combined_score, candidates of equal combined score in
\* the order of their vector rank and then of their insertion; never more
\* than top_k entries; the order is fixed by the inputs.
C22_SortedTruncatedStable ==
    (pc = "ranked" /\ ~retrieval_fault) =>
        /\ Len(final_results) <= top_k
        /\ Len(final_results) = Min(top_k, Cardinality(MergedKeys))
        /\ \A i \in 1..Len(final_results) :
              /\ final_results[i].key \in MergedKeys
              /\ final_results[i].combined_score
                    = KeyCombinedScore(final_results[i].key)
              /\ \A j \in (i + 1)..Len(final_results) :
                    RankedBefore(final_results[i].key, final_results[j].key)
              /\ \A key \in MergedKeys :
                    (\A j \in 1..Len(final_results) : final_results[j].key # key)
                        => RankedBefore(final_results[i].key, key)

\* six merged candidates cut to five, two of them with equal combined score
C22_Witness ==
    /\ pc = "ranked"
    /\ ~retrieval_fault
    /\ Cardinality(MergedKeys) > top_k
    /\ Len(final_results) = top_k
    /\ \E i \in 1..Len(final_results) : \E j \in (i + 1)..Len(final_results) :
          /\ final_results[i].combined_score = final_results[j].combined_score
          /\ final_results[i].combined_score > 0

(***************************************************************************)
(* EmbeddingModel.calculate_similarity on its own                         *)
(***************************************************************************)

\* embeddings handed to calculate_similarity: of length 0, 2 and 3, the
\* zero vectors among them
SimVectors ==
    { <<>>, <<0, 0>>, <<1, 0>>, <<0, 1>>, <<3, 4>>, <<4, 3>>, <<-3, 4>>,
      <<0, 0, 0>>, <<0, 0, 1>> }

\* every part but the library parts at rest
InitQuiet ==
    /\ InitDefaultSettings
    /\ providers = BackendNames
    /\ llm_pc = "idle"
    /\ preferred_model = None
    /\ model_order = <<>>
    /\ order_idx = 1
    /\ invoked = <<>>
    /\ outcomes = <<>>
    /\ llm_result = NoResult
    /\ InitRequest
    /\ db_sessions = <<>>
    /\ db_messages = <<>>
    /\ InitMem
    /\ InitExtIdle

InitSimilarity ==
    /\ InitQuiet
    /\ vec1 \in SimVectors
    /\ vec2 \in SimVectors
    /\ sim_result = 0
    /\ InitKeywordIdle
    /\ InitConnections
    /\ InitChunkIdle

\* calculate_similarity(embedding1, embedding2)
CalculateSimilarityCall ==
    /\ pc = "idle"
    /\ sim_result' = CalculateSimilarity(vec1, vec2)
    /\ pc' = "compared"
    /\ UNCHANGED <<entry, handled, user_message, req_session_id, req_preferred,
                   session, conversation_history, session_context, context_results,
                   retrieval_fault, messages, rag_result, conv_result,
                   service_result, replies>>
    /\ UNCHANGED <<llmVars, dbVars, memVars, extVars, vec1, vec2, kwVars,
                   connVars, chunkVars>>

NextSimilarity == CalculateSimilarityCall

SpecSimilarity == InitSimilarity /\ [][NextSimilarity]_vars

\* C23: calculate_similarity returns exactly 0 when either vector has zero
\* norm: no division by zero, no NaN, no exception.
C23_ZeroNormGivesZero ==
    (pc = "compared" /\ (Norm(vec1) = 0 \/ Norm(vec2) = 0)) => sim_result = 0

(***************************************************************************)
(* HybridSearch.keyword_search on its own, from the strings it is given   *)
(***************************************************************************)

MaxQueryLen == 3
MaxTextChars == 3
MaxKeywordDocs == 1

\* the characters of the strings: an upper-case letter, its lower-case
\* form, another letter and a blank
Chars == {"A", "a", "b", " "}

\* str.lower() on one character
CharLower(c) == IF c = "A" THEN "a" ELSE c

\* str.lower()
Lower(str) == [i \in 1..Len(str) |-> CharLower(str[i])]

\* str.split(): the runs of characters between blanks, none of them empty
Split(str) ==
    LET scan[i \in 0..Len(str)] ==
            IF i = 0 THEN [words |-> <<>>, word |-> <<>>]
            ELSE LET before == scan[i - 1]
                 IN IF str[i] = " "
                    THEN [words |-> IF before.word = <<>> THEN before.words
                                    ELSE Append(before.words, before.word),
                          word |-> <<>>]
                    ELSE [words |-> before.words,
                          word |-> Append(before.word, str[i])]
        last == scan[Len(str)]
    IN IF last.word = <<>> THEN last.words ELSE Append(last.words, last.word)

\* set(str.lower().split())
WordSet(str) == SeqToSet(Split(Lower(str)))

\* the documents as keyword_search sees them: each with the word set of its
\* lower-cased text, next to the text itself
Tokenized(strs) ==
    [i \in 1..Len(strs) |-> [text |-> WordSet(strs[i]), source_text |-> strs[i]]]

InitKeyword ==
    /\ InitQuiet
    /\ InitSimIdle
    /\ search_query \in SeqUpTo(Chars, MaxQueryLen)
    /\ texts \in SeqUpTo(SeqUpTo(Chars, MaxTextChars), MaxKeywordDocs)
    /\ InitConnections
    /\ InitChunkIdle

\* keyword_search(query, documents, top_k)
KeywordSearchCall ==
    /\ pc = "idle"
    /\ \E qwords \in {WordSet(search_query)}, docs \in {Tokenized(texts)} :
         /\ query_words' = qwords
         /\ documents' = docs
         /\ keyword_results' = KeywordSearch(qwords, docs, top_k)
    /\ pc' = "scored"
    /\ UNCHANGED <<entry, handled, user_message, req_session_id, req_preferred,
                   session, conversation_history, session_context, context_results,
                   retrieval_fault, messages, rag_result, conv_result,
                   service_result, replies>>
    /\ UNCHANGED <<llmVars, dbVars, memVars, retVars, tokVars, vector_weight,
                   top_k, vector_results, final_results, order_log, libVars>>

NextKeyword == KeywordSearchCall

SpecKeyword == InitKeyword /\ [][NextKeyword]_vars

\* words(str) of the claim: the lower-cased maximal runs without a blank
ClaimedWords(str) ==
    {Lower(SubSeq(str, i, j)) : <<i, j>> \in
        {p \in (1..Len(str)) \X (1..Len(str)) :
            /\ p[1] <= p[2]
            /\ \A k \in p[1]..p[2] : str[k] # " "
            /\ (p[1] = 1 \/ str[p[1] - 1] = " ")
            /\ (p[2] = Len(str) \/ str[p[2] + 1] = " ")}}

\* C24: keyword_search gives each candidate the score
\* |words(query) \cap words(text)| / |words(query)| over lower-cased
\* whitespace-separated word sets, whatever the length of the text, and the
\* score 0 to every candidate when the query has no words.
C24_KeywordScore ==
    pc = "scored" =>
        /\ Len(keyword_results) = Min(top_k, Len(texts))
        /\ \A i \in 1..Len(keyword_results) :
              LET qw == ClaimedWords(search_query)
                  dw == ClaimedWords(keyword_results[i].document.source_text)
              IN keyword_results[i].keyword_score
                   = IF qw = {} THEN 0
                     ELSE (100 * Cardinality(qw \cap dw)) \div Cardinality(qw)

\* an upper-case query of one word, found in a lower-case text of two
\* words, scored 1
C24_Witness ==
    /\ pc = "scored"
    /\ Cardinality(query_words) = 1
    /\ search_query # Lower(search_query)
    /\ \E i \in 1..Len(keyword_results) :
          /\ keyword_results[i].keyword_score = 100
          /\ Cardinality(keyword_results[i].document.text) = 2
          /\ keyword_results[i].document.source_text
                = Lower(keyword_results[i].document.source_text)

\* a blank query scores every candidate 0
C24_WitnessEmptyQuery ==
    /\ pc = "scored"
    /\ search_query = <<" ">>
    /\ Len(keyword_results) = 1
    /\ keyword_results[1].document.text # {}
    /\ \A i \in 1..Len(keyword_results) : keyword_results[i].keyword_score = 0

(***************************************************************************)
(* ChatService.process_message next to delete_session, over a store that  *)
(* holds sessions of several users, active and deleted                    *)
(***************************************************************************)

\* another user of the service
OtherUserId == CurrentUserId + 1

\* a stored session with primary key and session_id n, with one exchange
StoredSession(n, user_id, active) ==
    [id |-> n, session_id |-> n, user_id |-> user_id, is_active |-> active,
     model_used |-> "gigachat"]

\* the stores a request may meet: empty, or with a session that is the
\* requester's and active, one of another user and one the requester deleted
SessionStores ==
    { <<>>,
      <<StoredSession(1, CurrentUserId, TRUE), StoredSession(2, OtherUserId, TRUE),
        StoredSession(3, CurrentUserId, FALSE)>> }

\* one earlier exchange in each stored session
StoredExchanges(sessions) ==
    LET rows[i \in 0..Len(sessions)] ==
            IF i = 0 THEN <<>>
            ELSE rows[i - 1] \o SavedRows(sessions[i].id, "q1", [content |-> "answer"])
    IN rows[Len(sessions)]

\* a deployment without a GigaChat key: the default backend is not
\* configured and the fallback backends answer
InitSession ==
    /\ providers = InitializeProviders(FALSE, TRUE, TRUE)
    /\ default_model = "gigachat"
    /\ fallback_models = <<"deepseek", "openai">>
    /\ llm_pc = "idle"
    /\ preferred_model = None
    /\ model_order = <<>>
    /\ order_idx = 1
    /\ invoked = <<>>
    /\ outcomes = <<>>
    /\ llm_result = NoResult
    /\ InitRequest
    /\ db_sessions \in SessionStores
    /\ db_messages = StoredExchanges(db_sessions)
    /\ InitMem
    /\ InitExt

\* delete_session(user_id, session_id) of the requesting user, in a unit of
\* work of its own: the session found is marked inactive
DeleteSession ==
    /\ \E i \in 1..Len(db_sessions) :
         /\ db_sessions[i].user_id = CurrentUserId
         /\ \A j \in 1..(i - 1) :
               ~(/\ db_sessions[j].session_id = db_sessions[i].session_id
                 /\ db_sessions[j].user_id = CurrentUserId)
         /\ db_sessions[i].is_active
         /\ db_sessions' = [db_sessions EXCEPT ![i].is_active = FALSE]
    /\ UNCHANGED <<llmVars, reqVars, db_messages, memVars, extVars, libVars>>

NextSession ==
    \/ HttpSendMessage
    \/ GetOrCreateSession
    \/ GetHistory
    \/ PrepareContext
    \/ RetrieveContext
    \/ BuildPrompt
    \/ CallGenerate
    \/ LoopSkip
    \/ LoopAttempt
    \/ LoopExhausted
    \/ QueryReturn
    \/ ConversationReturn
    \/ SaveMessages
    \/ UpdateSession
    \/ HttpRespond
    \/ DeleteSession

SpecSession == InitSession /\ [][NextSession]_vars

\* the stored session with primary key pk is the requester's and is active
OwnAndActive(pk) ==
    \E i \in 1..Len(db_sessions) :
        /\ db_sessions[i].id = pk
        /\ db_sessions[i].user_id = CurrentUserId
        /\ db_sessions[i].is_active

\* the request has resolved its session
SessionResolved ==
    entry = "http" /\ pc \notin {"idle", "get_session"} /\ session # NoSessionRow

\* the step of _get_or_create_session: a session_id that names an active
\* session of the requester resolves to it; any other (none, unknown,
\* another user's, deleted) makes a new active session of the requester
\* with a session_id no stored session has
ResolvesAsClaimed ==
    (pc = "get_session" /\ pc' = "get_history") =>
        LET named == {i \in 1..Len(db_sessions) :
                         /\ req_session_id # NoSession
                         /\ db_sessions[i].session_id = req_session_id
                         /\ db_sessions[i].user_id = CurrentUserId
                         /\ db_sessions[i].is_active}
        IN IF named # {}
           THEN /\ \E i \in named : session' = db_sessions[i]
                /\ db_sessions' = db_sessions
           ELSE /\ Len(db_sessions') = Len(db_sessions) + 1
                /\ IsPrefix(db_sessions, db_sessions')
                /\ session' = Last(db_sessions')
                /\ session'.user_id = CurrentUserId
                /\ session'.is_active
                /\ \A i \in 1..Len(db_sessions) :
                      /\ db_sessions[i].session_id # session'.session_id
                      /\ db_sessions[i].id # session'.id

\* the step of _get_conversation_history reads rows of the resolved session
\* only, and every step that adds rows adds them to the resolved session
ReadsAndExtendsResolved ==
    /\ (pc = "get_history" /\ pc' = "prepare") =>
          LET mine == SelectSeq(db_messages, LAMBDA r : r.session_id = session.id)
          IN /\ Len(conversation_history') <= Len(mine)
             /\ \A k \in 1..Len(conversation_history') :
                   LET r == mine[Len(mine) - Len(conversation_history') + k]
                   IN conversation_history'[k]
                        = [role |-> r.role, content |-> r.content]
    /\ (db_messages' # db_messages) =>
          /\ IsPrefix(db_messages, db_messages')
          /\ \A k \in (Len(db_messages) + 1)..Len(db_messages') :
                db_messages'[k].session_id = session.id

\* C28 as stated: process_message reads history from and appends messages
\* to only a session that belongs to the requesting user and is active; a
\* session_id that is unknown, another user's or a deleted session's makes a
\* new session, and the existing session is neither read nor extended.
C28_OnlyOwnActiveSession ==
    [][ /\ ResolvesAsClaimed
        /\ ReadsAndExtendsResolved
        /\ (pc = "get_history" /\ pc' = "prepare") => OwnAndActive(session.id)
        /\ (db_messages' # db_messages) => OwnAndActive(session.id) ]_vars

\* C28 amended: the session process_message reads and extends is one that
\* belonged to the requesting user and was active when the request resolved
\* it; it still belongs to the requester at every later step
C28_ResolvedOwnActiveSession ==
    /\ [](SessionResolved =>
            /\ session.user_id = CurrentUserId
            /\ session.is_active
            /\ \E i \in 1..Len(db_sessions) :
                  /\ db_sessions[i].id = session.id
                  /\ db_sessions[i].user_id = CurrentUserId)
    /\ [][ResolvesAsClaimed /\ ReadsAndExtendsResolved]_vars

\* a request that named another user's session has answered from a new
\* session: the named session has its one exchange, the new one got the
\* new exchange
C28_Witness ==
    /\ pc = "respond"
    /\ entry = "http"
    /\ req_session_id = 2
    /\ Len(db_sessions) = 4
    /\ db_sessions[2].user_id = OtherUserId
    /\ session.id = 4
    /\ Len(db_messages) = 8
    /\ db_messages[8].session_id = 4
    /\ Cardinality({k \in 1..Len(db_messages) : db_messages[k].session_id = 2}) = 2

(***************************************************************************)
(* ConnectionManager and the websocket endpoint.  A websocket is "new"     *)
(* until accepted, "accepted" until connect() has registered it, then      *)
(* "open"; when its client goes away it is "gone" (or "accepted_gone")     *)
(* until its handler has run disconnect, then "closed"                     *)
(***************************************************************************)

\* ConnectionManager.disconnect(user_id) applied to the two dicts
Disconnect(user_id) ==
    /\ active_connections' = [active_connections EXCEPT ![user_id] = NoSocket]
    /\ user_sessions' = [user_sessions EXCEPT ![user_id] = NoSession]

\* what a handler does on WebSocketDisconnect or another exception
HandlerDisconnect(websocket) == Disconnect(ws_user[websocket])

\* websocket_endpoint up to the end of websocket.accept() in connect
Accept ==
    /\ \E w \in Sockets, u \in WsUserIds :
         /\ ws_state[w] = "new"
         /\ \A v \in Sockets : v < w => ws_state[v] # "new"
         /\ ws_state' = [ws_state EXCEPT ![w] = "accepted"]
         /\ ws_user' = [ws_user EXCEPT ![w] = u]
         /\ accept_log' = Append(accept_log, w)
    /\ UNCHANGED <<active_connections, user_sessions>>
    /\ UNCHANGED <<llmVars, reqVars, dbVars, memVars, extVars, simVars, kwVars,
                   chunkVars>>

\* connect after the await: the websocket is stored under its user_id,
\* whether or not its client is still there
Register ==
    /\ \E w \in Sockets :
         /\ ws_state[w] \in {"accepted", "accepted_gone"}
         /\ active_connections' = [active_connections EXCEPT ![ws_user[w]] = w]
         /\ ws_state' = [ws_state EXCEPT
                            ![w] = IF ws_state[w] = "accepted" THEN "open" ELSE "gone"]
    /\ UNCHANGED <<user_sessions, ws_user, accept_log>>
    /\ UNCHANGED <<llmVars, reqVars, dbVars, memVars, extVars, simVars, kwVars,
                   chunkVars>>

\* the client of a websocket goes away; its handler has not noticed yet
ClientGone ==
    /\ \E w \in Sockets :
         /\ ws_state[w] \in {"accepted", "open"}
         /\ ws_state' = [ws_state EXCEPT
                            ![w] = IF ws_state[w] = "open" THEN "gone"
                                   ELSE "accepted_gone"]
    /\ UNCHANGED <<active_connections, user_sessions, ws_user, accept_log>>
    /\ UNCHANGED <<llmVars, reqVars, dbVars, memVars, extVars, simVars, kwVars,
                   chunkVars>>

\* receive_text raises in the handler of a websocket whose client is gone:
\* the except branches of websocket_endpoint call manager.disconnect(user_id)
EndpointDisconnect ==
    /\ \E w \in Sockets :
         /\ ws_state[w] = "gone"
         /\ HandlerDisconnect(w)
         /\ ws_state' = [ws_state EXCEPT ![w] = "closed"]
    /\ UNCHANGED <<ws_user, accept_log>>
    /\ UNCHANGED <<llmVars, reqVars, dbVars, memVars, extVars, simVars, kwVars,
                   chunkVars>>

\* send_personal_message(message, user_id): send_text on the registered
\* websocket raises when its client is gone, and the except branch calls
\* disconnect(user_id)
SendPersonalMessage ==
    /\ \E u \in WsUserIds :
         /\ active_connections[u] # NoSocket
         /\ IF ws_state[active_connections[u]] = "open"
            THEN UNCHANGED <<active_connections, user_sessions>>
            ELSE Disconnect(u)
    /\ UNCHANGED <<ws_state, ws_user, accept_log>>
    /\ UNCHANGED <<llmVars, reqVars, dbVars, memVars, extVars, simVars, kwVars,
                   chunkVars>>

\* handle_chat_message after a successful process_message: the session of
\* the answer is noted under the user_id
NoteUserSession ==
    /\ \E w \in Sockets, sid \in 1..2 :
         /\ ws_state[w] = "open"
         /\ user_sessions[ws_user[w]] # sid
         /\ user_sessions' = [user_sessions EXCEPT ![ws_user[w]] = sid]
    /\ UNCHANGED <<active_connections, ws_state, ws_user, accept_log>>
    /\ UNCHANGED <<llmVars, reqVars, dbVars, memVars, extVars, simVars, kwVars,
                   chunkVars>>

InitConnection ==
    /\ InitQuiet
    /\ InitLib

NextConnection ==
    \/ Accept
    \/ Register
    \/ ClientGone
    \/ EndpointDisconnect
    \/ SendPersonalMessage
    \/ NoteUserSession

SpecConnection == InitConnection /\ [][NextConnection]_vars

\* the websocket accepted last for a user_id, NoSocket when there is none
LatestAccepted(u) ==
    LET mine == {i \in 1..Len(accept_log) : ws_user[accept_log[i]] = u}
    IN IF mine = {} THEN NoSocket
       ELSE accept_log[CHOOSE i \in mine : \A j \in mine : j <= i]

\* C29: after any interleaving of connect, disconnect and send-failure
\* events at most one connection is registered per user_id, and every
\* user_id whose most recently accepted websocket is still open is
\* registered in active_connections: the closing of an older connection of
\* a user_id never unregisters a newer open one.
C29_LatestOpenStaysRegistered ==
    \A u \in WsUserIds :
        /\ Cardinality({w \in Sockets : active_connections[u] = w}) <= 1
        /\ (LatestAccepted(u) # NoSocket /\ ws_state[LatestAccepted(u)] = "open")
              => active_connections[u] # NoSocket

(***************************************************************************)
(* DocumentChunker.chunk_text, one loop iteration per step                 *)
(***************************************************************************)

MaxChunkSize == 3
MaxChunks == 8

\* the texts: the first n characters of a fixed string
Letters == <<"a", "b", "c", "d", "e", "f", "g", "h">>
Texts == {SubSeq(Letters, 1, n) : n \in 0..MaxTextLen}

\* the arguments of DocumentChunker(chunk_size, chunk_overlap): 0 stands for
\* None and for 0, which "or" treats alike
ChunkSizeArgs == 0..MaxChunkSize
ChunkOverlapArgs == (0 - 1)..MaxChunkSize

\* "argument or settings value" of DocumentChunker.__init__
OrDefault(arg, default) == IF arg = 0 THEN default ELSE arg

\* text[start:end] of Python, for any integers start and end
Slice(str, from, to) ==
    LET n == Len(str)
        Clamp(i) == IF i < 0 THEN (IF i + n < 0 THEN 0 ELSE i + n)
                    ELSE (IF i > n THEN n ELSE i)
    IN SubSeq(str, Clamp(from) + 1, Clamp(to))

\* a variant that moves on by the overlap instead of back
NextStart_AddsOverlap(end, overlap) == end + overlap

\* start = end - self.chunk_overlap
NextStart(end, overlap) == end - overlap

InitChunk ==
    /\ InitQuiet
    /\ InitSimIdle
    /\ InitKeywordIdle
    /\ InitConnections
    /\ text \in Texts
    /\ \E size_arg \in ChunkSizeArgs, overlap_arg \in ChunkOverlapArgs :
         /\ chunk_size = OrDefault(size_arg, DefaultChunkSize)
         /\ chunk_overlap = OrDefault(overlap_arg, DefaultChunkOverlap)
    /\ start = 0
    /\ chunks = <<>>
    /\ chunk_pc = "idle"

\* chunk_text(text) up to the loop
ChunkTextCall ==
    /\ chunk_pc = "idle"
    /\ start' = 0
    /\ chunks' = <<>>
    /\ chunk_pc' = "loop"
    /\ UNCHANGED <<text, chunk_size, chunk_overlap>>
    /\ UNCHANGED <<llmVars, reqVars, dbVars, memVars, extVars, simVars, kwVars,
                   connVars>>

\* one iteration of the while loop: the chunk is appended, start moves, and
\* the loop is left through the break when start has passed the text
ChunkStep ==
    /\ chunk_pc = "loop"
    /\ start < Len(text)
    /\ Len(chunks) < MaxChunks
    /\ LET end == start + chunk_size
           chunk == Slice(text, start, end)
       IN /\ chunks' = Append(chunks,
                              [text |-> chunk,
                               metadata |-> [start_pos |-> start, end_pos |-> end,
                                             chunk_size |-> Len(chunk)]])
          /\ start' = NextStart(end, chunk_overlap)
          /\ chunk_pc' = IF NextStart(end, chunk_overlap) >= Len(text)
                         THEN "done" ELSE "loop"
    /\ UNCHANGED <<text, chunk_size, chunk_overlap>>
    /\ UNCHANGED <<llmVars, reqVars, dbVars, memVars, extVars, simVars, kwVars,
                   connVars>>

\* the while condition fails on entry: the empty text
ChunkReturn ==
    /\ chunk_pc = "loop"
    /\ ~(start < Len(text))
    /\ chunk_pc' = "done"
    /\ UNCHANGED <<text, chunk_size, chunk_overlap, start, chunks>>
    /\ UNCHANGED <<llmVars, reqVars, dbVars, memVars, extVars, simVars, kwVars,
                   connVars>>

NextChunk ==
    \/ ChunkTextCall
    \/ ChunkStep
    \/ ChunkReturn

\* the call runs on: no step of it waits for anything
SpecChunk ==
    /\ InitChunk
    /\ [][NextChunk]_vars
    /\ WF_vars(ChunkTextCall)
    /\ WF_vars(ChunkStep)
    /\ WF_vars(ChunkReturn)

\* the character at position p (from 1) is in a returned chunk, and the
\* chunk holds the text's characters there
Covered(p) ==
    \E i \in 1..Len(chunks) :
        LET c == chunks[i]
        IN /\ c.metadata.start_pos < p
           /\ p <= c.metadata.start_pos + Len(c.text)
           /\ c.text[p - c.metadata.start_pos] = text[p]

\* chunk_text returns, and start grows in every iteration
TerminatesWithProgress ==
    /\ (chunk_pc = "loop" /\ chunk_overlap < chunk_size) ~> (chunk_pc = "done")
    /\ [][(chunk_pc = "loop" /\ start' # start /\ chunk_overlap < chunk_size)
            => start' > start]_vars
    /\ []((chunk_overlap < chunk_size) => Len(chunks) < MaxChunks)

\* C30 as stated: chunk_text terminates for every text whenever
\* chunk_overlap < chunk_size, start growing in every iteration, and the
\* chunks it returns together cover every character position of the text.
C30_TerminatesAndCovers ==
    /\ TerminatesWithProgress
    /\ []((chunk_pc = "done" /\ chunk_overlap < chunk_size)
            => \A p \in 1..Len(text) : Covered(p))

\* C30 amended: chunk_text terminates for every text whenever
\* chunk_overlap < chunk_size, start growing in every iteration; the chunks
\* cover every character position when also chunk_overlap >= 0.
C30_TerminatesAndCoversFromZero ==
    /\ TerminatesWithProgress
    /\ []((chunk_pc = "done" /\ chunk_overlap < chunk_size /\ chunk_overlap >= 0)
            => \A p \in 1..Len(text) : Covered(p))

\* a text of six characters cut into chunks of three with an overlap of two
C30_Witness ==
    /\ chunk_pc = "done"
    /\ Len(text) = 6
    /\ chunk_size = 3
    /\ chunk_overlap = 2
    /\ Len(chunks) = 6
    /\ chunks[4].text = <<"d", "e", "f">>
    /\ chunks[6].text = <<"f">>

====
